---- MODULE Spec2Model ----
(***************************************************************************)
(* A model of stellar-core's transaction-set handling (herder/TxSetFrame)  *)
(* and of the fee computation it relies on (transactions/FeeBump...).      *)
(*                                                                         *)
(* A TxSetFrame is an object holding mTransactions, mPreviousLedgerHash    *)
(* and a cached contents hash.  Its operations are actions of the state    *)
(* machine; the loop of surgePricingFilter is modelled one iteration per   *)
(* step so that what it examines at each step is visible.                  *)
(***************************************************************************)
EXTENDS Integers, Sequences, FiniteSets

\* ------------------------------------------------------------------ bounds

\* largest number of transactions a set is constructed with
MaxTxs == 3

\* width, in bits, of the model's hashes
HashBits == 3

\* ------------------------------------------------------- program constants

MAX_OPS_PER_TX == 100

\* the largest value of the fee type (TLC's integers are 32 bits wide,
\* so the largest of them stands for it; no fee of the model comes near it)
INT64_MAX == 2147483647

\* first ledger version that measures a set and its budget in operations
OPS_VERSION == 11

\* ------------------------------------------------------------------ hashes

Hashes == 0 .. ((2 ^ HashBits) - 1)

RECURSIVE XorBits(_, _, _)
XorBits(a, b, n) ==
    IF n = 0 THEN 0
    ELSE (((a % 2) + (b % 2)) % 2) + 2 * XorBits(a \div 2, b \div 2, n - 1)

\* bytewise l ^ x compared with r ^ x, most significant byte first
lessThanXored(l, r, x) == XorBits(l, x, HashBits) < XorBits(r, x, HashBits)

\* SHA-256 of a byte string: an order-sensitive digest of a sequence of numbers
RECURSIVE ShaFold(_, _)
ShaFold(h, s) ==
    IF s = << >> THEN h
    ELSE ShaFold((5 * h + 11 * Head(s) + 3) % (8 * (2 ^ HashBits)), Tail(s))

sha256(s) == ShaFold(0, s) \div 8

\* ------------------------------------------------------------ transactions

Accounts == {"A", "B", "C"}

\* The transactions that can arrive off the wire.  env is the XDR encoding of
\* the envelope, fee the fee of the (outer) envelope, innerOps the number of
\* operations of the (inner) transaction, resourceFee the declared Soroban
\* resource fee.
TxUniverse ==
    { [env |-> 1, feeBump |-> FALSE, src |-> "A", feeSrc |-> "A", seq |-> 1,
       fee |-> 200, innerOps |-> 2, soroban |-> FALSE, resourceFee |-> 0],
      [env |-> 2, feeBump |-> FALSE, src |-> "A", feeSrc |-> "A", seq |-> 2,
       fee |-> 100, innerOps |-> 1, soroban |-> FALSE, resourceFee |-> 0],
      [env |-> 3, feeBump |-> FALSE, src |-> "A", feeSrc |-> "A", seq |-> 2,
       fee |-> 300, innerOps |-> 1, soroban |-> FALSE, resourceFee |-> 0],
      [env |-> 4, feeBump |-> FALSE, src |-> "B", feeSrc |-> "B", seq |-> 1,
       fee |-> 101, innerOps |-> 2, soroban |-> FALSE, resourceFee |-> 0],
      [env |-> 5, feeBump |-> TRUE, src |-> "B", feeSrc |-> "A", seq |-> 2,
       fee |-> 200, innerOps |-> 1, soroban |-> TRUE, resourceFee |-> 100],
      [env |-> 6, feeBump |-> FALSE, src |-> "B", feeSrc |-> "B", seq |-> 3,
       fee |-> 40, innerOps |-> 1, soroban |-> FALSE, resourceFee |-> 0] }

getEnvelope(tx) == tx.env

getFullHash(tx) == sha256(<< getEnvelope(tx) >>)

getSeqNum(tx) == tx.seq

getSourceID(tx) == tx.src

getFeeSourceID(tx) == tx.feeSrc

getFullFee(tx) == tx.fee

isSoroban(tx) == tx.soroban

declaredSorobanResourceFee(tx) == tx.resourceFee

getInclusionFee(tx) ==
    IF isSoroban(tx) THEN getFullFee(tx) - declaredSorobanResourceFee(tx)
    ELSE getFullFee(tx)

getNumOperations(tx) == IF tx.feeBump THEN tx.innerOps + 1 ELSE tx.innerOps

\* the fee bid of the envelope, as used by the transaction set
getFeeBid(tx) == getFullFee(tx)

Max(a, b) == IF a >= b THEN a ELSE b

Min(a, b) == IF a <= b THEN a ELSE b

getMinFee(tx, header) == header.baseFee * Max(1, getNumOperations(tx))

\* getFee charging the adjusted fee even above the inclusion fee
getFee_NoCap(tx, header, baseFee, applying) ==
    IF baseFee = << >> THEN getFullFee(tx)
    ELSE (IF isSoroban(tx) THEN declaredSorobanResourceFee(tx) ELSE 0)
         + baseFee[1] * Max(1, getNumOperations(tx))

\* baseFee is a std::optional: << >> or << fee >>
getFee(tx, header, baseFee, applying) ==
    IF baseFee = << >> THEN getFullFee(tx)
    ELSE LET flatFee == IF isSoroban(tx) THEN declaredSorobanResourceFee(tx)
                        ELSE 0
             adjustedFee == baseFee[1] * Max(1, getNumOperations(tx))
         IN  IF applying
             THEN flatFee + Min(getInclusionFee(tx), adjustedFee)
             ELSE flatFee + adjustedFee

\* bigDivide(A, B, C, ROUND_UP) for non-negative A, B and positive C
bigDivideRoundUp(a, b, c) == (a * b + c - 1) \div c

\* ------------------------------------------------------------------- sorts

Range(s) == { s[i] : i \in 1 .. Len(s) }

\* the arrangements of the elements of S, each once
RECURSIVE Enumerations(_)
Enumerations(S) ==
    IF S = {} THEN {<< >>}
    ELSE UNION { { << x >> \o s : s \in Enumerations(S \ {x}) } : x \in S }

\* the outcomes std::sort may produce on the elements S under Less: every
\* arrangement in which no element is Less than one before it
SortedArrangements(S, Less(_, _)) ==
    { s \in Enumerations(S) :
        \A i, j \in 1 .. Len(s) : i < j => ~Less(s[j], s[i]) }

HashTxSorter(tx1, tx2) == getFullHash(tx1) < getFullHash(tx2)

SeqSorter(tx1, tx2) == getSeqNum(tx1) < getSeqNum(tx2)

\* ApplyTxSorter comparing the full hashes without the set hash
ApplyTxSorter_NoXor(mSetHash, tx1, tx2) == getFullHash(tx1) < getFullHash(tx2)

ApplyTxSorter(mSetHash, tx1, tx2) ==
    lessThanXored(getFullHash(tx1), getFullHash(tx2), mSetHash)

sortForHash(txs) == SortedArrangements(Range(txs), HashTxSorter)

IsSortedForHash(txs) ==
    \A i \in 1 .. Len(txs) - 1 : ~HashTxSorter(txs[i + 1], txs[i])

\* --------------------------------------------------------------- the state

VARIABLES
    mTransactions,        \* TxSetFrame: the transactions, in vector order
    mHashIsValid,         \* TxSetFrame: whether mHash is the contents hash
    mHash,                \* TxSetFrame: the cached contents hash
    mPreviousLedgerHash,  \* TxSetFrame
    app,                  \* the Application: last closed ledger and accounts
    pc,                   \* "idle", or "surge" inside surgePricingFilter
    surge,                \* the locals of a running surgePricingFilter
    last,                 \* the last completed operation: name, set before, result
    feeLtx,               \* fee processing: the ledger view (header, accounts)
    feeLast,              \* fee processing: the last processFeeSeqNum call
    ivParent,             \* contract invocation: the view the operation's view nests in
    ivLtx,                \* contract invocation: the operation's own view (ltx)
    ivOp,                 \* contract invocation: footprint, resources, network config
    ivRun,                \* contract invocation: position and locals of doApply
    fbTx,                 \* fee bump: the FeeBumpTransactionFrame
    fbLtx,                \* fee bump: the ledger view (header, accounts)
    fbRun,                \* fee bump: position, result payload, what happened
    mainRun,              \* main(): position, the two fingerprint lists, outcome
    cmpRun,               \* SurgeCompare: the queues compared and the answers
    utilRun,              \* TxSetUtils::trimInvalid: arguments, views, results
    acctQueue,            \* AccountTransactionQueue: mTxs, mNumOperations
    metaRun,              \* debug meta: the ledgers closed and the segments cut
    prevHashRef           \* a caller's Hash& got from previousLedgerHash()

txSetVars == << mTransactions, mHashIsValid, mHash, mPreviousLedgerHash, app,
                pc, surge, last >>

feeVars == << feeLtx, feeLast >>

invokeVars == << ivParent, ivLtx, ivOp, ivRun >>

bumpVars == << fbTx, fbLtx, fbRun >>

utilVars == << mainRun, cmpRun, utilRun, acctQueue, metaRun, prevHashRef >>

\* what no operation of TxSetFrame touches
notTxSetVars == << feeVars, invokeVars, bumpVars, utilVars >>

vars == << txSetVars, feeVars, invokeVars, bumpVars, utilVars >>

\* no fee processing under way
FeeOff ==
    /\ feeLtx = << >>
    /\ feeLast = << >>

\* no contract invocation under way
InvokeOff ==
    /\ ivParent = << >>
    /\ ivLtx = << >>
    /\ ivOp = << >>
    /\ ivRun = << >>

\* no fee bump under way
BumpOff ==
    /\ fbTx = << >>
    /\ fbLtx = << >>
    /\ fbRun = << >>

\* no reference to mPreviousLedgerHash is held by a caller
NoRef == [held |-> FALSE, missed |-> FALSE]

\* no start-up, comparison, utility call, account queue or debug meta under
\* way, no reference held
UtilOff ==
    /\ mainRun = << >>
    /\ cmpRun = << >>
    /\ utilRun = << >>
    /\ acctQueue = << >>
    /\ metaRun = << >>
    /\ prevHashRef = NoRef

\* ------------------------------------------------------------- environment

LedgerVersions == {10, 20}

MaxTxSetSizes == {3, 102}

\* the accounts of the last closed ledger
Ledgers ==
    { [a \in Accounts |->
         [seqNum |-> 0, balance |-> IF a = "A" THEN 500 ELSE 170,
          reserve |-> 20, sellingLiabilities |-> 0]] }

Apps ==
    { [header |-> [ledgerVersion |-> v, baseFee |-> 50, maxTxSetSize |-> m],
       lclHash |-> 0, accounts |-> l] :
        v \in LedgerVersions, m \in MaxTxSetSizes, l \in Ledgers }

getLastMaxTxSetSizeOps(a) == a.header.maxTxSetSize

getAvailableBalance(header, acc) ==
    acc.balance - acc.reserve - acc.sellingLiabilities

\* tx->checkValid(ltx, current): the per-transaction checks against the ledger
TxCheckValid(tx, a, current) ==
    LET cur == IF current = 0 THEN a.accounts[getSourceID(tx)].seqNum
               ELSE current
    IN  /\ getFullFee(tx) >= 0
        /\ tx.feeBump => a.header.ledgerVersion >= 13
        /\ isSoroban(tx) => a.header.ledgerVersion >= 20
        /\ getInclusionFee(tx) >= getMinFee(tx, a.header)
        /\ getSeqNum(tx) = cur + 1
        /\ getAvailableBalance(a.header, a.accounts[getFeeSourceID(tx)])
               >= getFullFee(tx)

\* the sequences of distinct transactions of length at most n
RECURSIVE TxSeqs(_)
TxSeqs(n) ==
    IF n = 0 THEN {<< >>}
    ELSE LET shorter == TxSeqs(n - 1)
         IN  shorter \cup
             UNION { { Append(s, t) : t \in TxUniverse \ Range(s) } :
                     s \in { x \in shorter : Len(x) = n - 1 } }

NoSurge ==
    [pre |-> << >>, queues |-> [a \in Accounts |-> << >>], heap |-> {},
     opsLeft |-> 0, updatedSet |-> << >>, mSeed |-> 0, examined |-> << >>,
     didNotFit |-> {}]

\* TxSetFrame(networkID, xdrSet): the state after construction from the wire
Init ==
    /\ mTransactions \in TxSeqs(MaxTxs)
    /\ mHashIsValid = FALSE
    /\ mHash = 0
    /\ mPreviousLedgerHash \in {0, 1}
    /\ app \in Apps
    /\ pc = "idle"
    /\ surge = NoSurge
    /\ last = [op |-> "construct", pre |-> << >>, ret |-> << >>, aux |-> << >>]
    /\ FeeOff
    /\ InvokeOff
    /\ BumpOff
    /\ UtilOff

\* ---------------------------------------------------- contents hash, sizes

sizeTx(txs) == Len(txs)

RECURSIVE sizeOp(_)
sizeOp(txs) ==
    IF txs = << >> THEN 0
    ELSE getNumOperations(Head(txs)) + sizeOp(Tail(txs))

size(txs, lh) == IF lh.ledgerVersion >= OPS_VERSION THEN sizeOp(txs)
                 ELSE sizeTx(txs)

Envelopes(txs) == [i \in 1 .. Len(txs) |-> getEnvelope(txs[i])]

\* the hasher's result over mPreviousLedgerHash and the envelopes in vector order
HashOf(prev, txs) == sha256(<< prev >> \o Envelopes(txs))

\* getContentsHash hashing the vector as it stands, without sortForHash
getContentsHash_NoSort(txs, valid, hash, prev) ==
    IF ~valid THEN { << txs, HashOf(prev, txs) >> } ELSE { << txs, hash >> }

\* the states getContentsHash can leave: << mTransactions, mHash >>
getContentsHash(txs, valid, hash, prev) ==
    IF ~valid
    THEN { << s, HashOf(prev, s) >> : s \in sortForHash(txs) }
    ELSE { << txs, hash >> }

GetContentsHash ==
    /\ pc = "idle"
    /\ \E r \in getContentsHash(mTransactions, mHashIsValid, mHash,
                                mPreviousLedgerHash) :
          /\ mTransactions' = r[1]
          /\ mHash' = r[2]
          /\ mHashIsValid' = TRUE
          /\ last' = [op |-> "getContentsHash", pre |-> mTransactions,
                      ret |-> r[2], aux |-> << >>]
    /\ UNCHANGED << notTxSetVars, mPreviousLedgerHash, app, pc, surge >>

SortForHash ==
    /\ pc = "idle"
    /\ \E s \in sortForHash(mTransactions) :
          /\ mTransactions' = s
          /\ last' = [op |-> "sortForHash", pre |-> mTransactions, ret |-> s,
                      aux |-> << >>]
    /\ mHashIsValid' = FALSE
    /\ UNCHANGED << notTxSetVars, mHash, mPreviousLedgerHash, app, pc, surge >>

\* txSet.previousLedgerHash() = h
SetPreviousLedgerHash ==
    /\ pc = "idle"
    /\ \E h \in {0, 1} :
          /\ mPreviousLedgerHash' = h
          /\ last' = [op |-> "previousLedgerHash", pre |-> mTransactions,
                      ret |-> h, aux |-> << >>]
    /\ mHashIsValid' = FALSE
    /\ UNCHANGED << notTxSetVars, mTransactions, mHash, app, pc, surge >>

\* std::find and erase: the vector without its first element equal to tx
removeTx(txs, tx) ==
    IF tx \in Range(txs)
    THEN LET i == CHOOSE k \in 1 .. Len(txs) :
                    /\ txs[k] = tx
                    /\ \A j \in 1 .. (k - 1) : txs[j] # tx
         IN  SubSeq(txs, 1, i - 1) \o SubSeq(txs, i + 1, Len(txs))
    ELSE txs

RemoveTx ==
    /\ pc = "idle"
    /\ \E tx \in TxUniverse :
          /\ mTransactions' = removeTx(mTransactions, tx)
          /\ last' = [op |-> "removeTx", pre |-> mTransactions,
                      ret |-> mTransactions', aux |-> << tx >>]
    /\ mHashIsValid' = FALSE
    /\ UNCHANGED << notTxSetVars, mHash, mPreviousLedgerHash, app, pc, surge >>

\* ------------------------------------------------------------ sortForApply

TxsOf(txs, a) == { t \in Range(txs) : getSourceID(t) = a }

\* buildAccountTxQueues leaving each queue in vector order, without the sort
buildAccountTxQueues_NoSort(txs) ==
    { [a \in Accounts |-> SelectSeq(txs, LAMBDA t : getSourceID(t) = a)] }

\* the maps buildAccountTxQueues can return: one queue per source account,
\* sorted by SeqSorter (an account without transactions has no entry, here the
\* empty queue)
buildAccountTxQueues(txs) ==
    LET sorted == [a \in Accounts |->
                     SortedArrangements(TxsOf(txs, a), SeqSorter)]
        RECURSIVE queues(_, _)
        queues(q, rest) ==
            IF rest = {} THEN {q}
            ELSE LET a == CHOOSE b \in rest : TRUE
                 IN  UNION { queues([q EXCEPT ![a] = s], rest \ {a}) :
                               s \in sorted[a] }
    IN  queues([a \in Accounts |-> << >>], Accounts)

NumBatches(q) ==
    CHOOSE n \in 0 .. MaxTxs + 1 :
        /\ \A a \in Accounts : Len(q[a]) <= n
        /\ n > 0 => \E a \in Accounts : Len(q[a]) = n

\* txBatches' i-th element: the i-th transaction of every queue that has one
Batch(q, i) == { q[a][i] : a \in { b \in Accounts : Len(q[b]) >= i } }

\* the lists retList can end as: each batch sorted by ApplyTxSorter(setHash),
\* the batches one after the other
RECURSIVE ApplyBatches(_, _, _, _)
ApplyBatches(q, i, n, setHash) ==
    IF i > n THEN {<< >>}
    ELSE { b \o rest :
             b \in SortedArrangements(Batch(q, i),
                                      LAMBDA x, y : ApplyTxSorter(setHash, x, y)),
             rest \in ApplyBatches(q, i + 1, n, setHash) }

\* the outcomes of sortForApply: the list returned and the frame it leaves
\* (getContentsHash is called once per batch, so not at all on an empty set)
sortForApply(txs, valid, hash, prev) ==
    UNION { IF NumBatches(q) = 0
            THEN { [retList |-> << >>, txs |-> txs, hash |-> hash,
                    valid |-> valid] }
            ELSE UNION { { [retList |-> l, txs |-> r[1], hash |-> r[2],
                            valid |-> TRUE] :
                           l \in ApplyBatches(q, 1, NumBatches(q), r[2]) } :
                         r \in getContentsHash(txs, valid, hash, prev) } :
            q \in buildAccountTxQueues(txs) }

SortForApply ==
    /\ pc = "idle"
    /\ \E o \in sortForApply(mTransactions, mHashIsValid, mHash,
                             mPreviousLedgerHash) :
          /\ mTransactions' = o.txs
          /\ mHash' = o.hash
          /\ mHashIsValid' = o.valid
          /\ last' = [op |-> "sortForApply", pre |-> mTransactions,
                      ret |-> o.retList, aux |-> << >>]
    /\ UNCHANGED << notTxSetVars, mPreviousLedgerHash, app, pc, surge >>

\* ------------------------------------------------------ surgePricingFilter

bigMultiply(a, b) == a * b

\* SurgeCompare comparing the fee bids alone, not the fee rates
SurgeCompare_BidOnly(mSeed, mHeader, q1, q2) ==
    IF q1 = << >> THEN q2 # << >>
    ELSE IF q2 = << >> THEN FALSE
    ELSE IF getFeeBid(Head(q1)) < getFeeBid(Head(q2)) THEN TRUE
    ELSE IF getFeeBid(Head(q1)) > getFeeBid(Head(q2)) THEN FALSE
    ELSE lessThanXored(getFullHash(Head(q1)), getFullHash(Head(q2)), mSeed)

\* SurgeCompare answering true for an empty first queue whatever the second
SurgeCompare_EmptyAlwaysLess(mSeed, mHeader, q1, q2) ==
    IF q1 = << >> THEN TRUE
    ELSE IF q2 = << >> THEN FALSE
    ELSE LET top1 == Head(q1)
             top2 == Head(q2)
             v1 == bigMultiply(getFeeBid(top1), getMinFee(top2, mHeader))
             v2 == bigMultiply(getFeeBid(top2), getMinFee(top1, mHeader))
         IN  IF v1 < v2 THEN TRUE
             ELSE IF v1 > v2 THEN FALSE
             ELSE lessThanXored(getFullHash(top1), getFullHash(top2), mSeed)

\* SurgeCompare::operator(): true if queue q1 < queue q2
SurgeCompare(mSeed, mHeader, q1, q2) ==
    IF q1 = << >> THEN q2 # << >>
    ELSE IF q2 = << >> THEN FALSE
    ELSE LET top1 == Head(q1)
             top2 == Head(q2)
             v1 == bigMultiply(getFeeBid(top1), getMinFee(top2, mHeader))
             v2 == bigMultiply(getFeeBid(top2), getMinFee(top1, mHeader))
         IN  IF v1 < v2 THEN TRUE
             ELSE IF v1 > v2 THEN FALSE
             ELSE lessThanXored(getFullHash(top1), getFullHash(top2), mSeed)

\* the values HashUtils::random() gives SurgeCompare::mSeed in the model
Seeds == {0, (2 ^ HashBits) - 1}

\* surgeQueue.top(): an element of the heap that is less than no other
surgeQueueTop(s) ==
    { c \in s.heap :
        \A o \in s.heap \ {c} :
            ~SurgeCompare(s.mSeed, app.header, s.queues[c], s.queues[o]) }

\* lines 220-244: the size test and, under surge, the heap of account queues
SurgeBegin ==
    /\ pc = "idle"
    /\ LET maxIsOps == app.header.ledgerVersion >= OPS_VERSION
           opsLeft == getLastMaxTxSetSizeOps(app)
           curSizeOps == IF maxIsOps THEN sizeOp(mTransactions)
                         ELSE sizeTx(mTransactions) * MAX_OPS_PER_TX
       IN  IF curSizeOps > opsLeft
           THEN /\ \E q \in buildAccountTxQueues(mTransactions), seed \in Seeds :
                      surge' = [pre |-> mTransactions, queues |-> q,
                                heap |-> { a \in Accounts : q[a] # << >> },
                                opsLeft |-> opsLeft, updatedSet |-> << >>,
                                mSeed |-> seed, examined |-> << >>,
                                didNotFit |-> {}]
                /\ pc' = "surge"
                /\ last' = [op |-> "surgePricingFilter:begin",
                            pre |-> mTransactions, ret |-> << >>,
                            aux |-> << >>]
           ELSE /\ last' = [op |-> "surgePricingFilter", pre |-> mTransactions,
                            ret |-> mTransactions,
                            aux |-> [surged |-> FALSE, didNotFit |-> {}]]
                /\ UNCHANGED << pc, surge >>
    /\ UNCHANGED << notTxSetVars, mTransactions, mHashIsValid, mHash, mPreviousLedgerHash,
                    app >>

\* surgePricingFilter's loop body with the budget test always passing
surgeStep_NoBudgetTest(s, cur, lh) ==
    LET curTopTx == Head(s.queues[cur])
        opsCount == IF lh.ledgerVersion >= OPS_VERSION
                    THEN getNumOperations(curTopTx)
                    ELSE MAX_OPS_PER_TX
    IN  [s EXCEPT
           !.updatedSet = Append(@, curTopTx),
           !.queues[cur] = Tail(@),
           !.opsLeft = @ - opsCount,
           !.heap = IF Tail(s.queues[cur]) # << >> THEN @ ELSE @ \ {cur},
           !.examined = << [tx |-> curTopTx,
                            heads |-> { Head(s.queues[a]) : a \in s.heap },
                            accepted |-> TRUE] >>]

\* surgePricingFilter's loop body dropping only the transaction that does not
\* fit and keeping the rest of its queue in the heap
surgeStep_DropHeadOnly(s, cur, lh) ==
    LET curTopTx == Head(s.queues[cur])
        opsCount == IF lh.ledgerVersion >= OPS_VERSION
                    THEN getNumOperations(curTopTx)
                    ELSE MAX_OPS_PER_TX
    IN  [s EXCEPT
           !.updatedSet = IF opsCount <= s.opsLeft THEN Append(@, curTopTx)
                          ELSE @,
           !.queues[cur] = Tail(@),
           !.opsLeft = IF opsCount <= s.opsLeft THEN @ - opsCount ELSE @,
           !.heap = IF Tail(s.queues[cur]) # << >> THEN @ ELSE @ \ {cur},
           !.examined = << [tx |-> curTopTx,
                            heads |-> { Head(s.queues[a]) : a \in s.heap },
                            accepted |-> opsCount <= s.opsLeft] >>,
           !.didNotFit = IF opsCount <= s.opsLeft THEN @
                         ELSE @ \cup {curTopTx}]

\* surgePricingFilter's loop body pushing the queue back after every accepted
\* transaction, without the test for an empty queue
surgeStep_AlwaysPushBack(s, cur, lh) ==
    LET curTopTx == Head(s.queues[cur])
        opsCount == IF lh.ledgerVersion >= OPS_VERSION
                    THEN getNumOperations(curTopTx)
                    ELSE MAX_OPS_PER_TX
        seen == [tx |-> curTopTx,
                 heads |-> { Head(s.queues[a]) : a \in s.heap },
                 accepted |-> opsCount <= s.opsLeft]
    IN  IF opsCount <= s.opsLeft
        THEN [s EXCEPT
                !.updatedSet = Append(@, curTopTx),
                !.queues[cur] = Tail(@),
                !.opsLeft = @ - opsCount,
                !.examined = << seen >>]
        ELSE [s EXCEPT
                !.queues[cur] = << >>,
                !.heap = @ \ {cur},
                !.examined = << seen >>,
                !.didNotFit = @ \cup {curTopTx}]

\* lines 250-272: the loop body, for the queue cur popped off the heap
surgeStep(s, cur, lh) ==
    LET curTopTx == Head(s.queues[cur])
        opsCount == IF lh.ledgerVersion >= OPS_VERSION
                    THEN getNumOperations(curTopTx)
                    ELSE MAX_OPS_PER_TX
        seen == [tx |-> curTopTx,
                 heads |-> { Head(s.queues[a]) : a \in s.heap },
                 accepted |-> opsCount <= s.opsLeft]
    IN  IF opsCount <= s.opsLeft
        THEN [s EXCEPT
                !.updatedSet = Append(@, curTopTx),
                !.queues[cur] = Tail(@),
                !.opsLeft = @ - opsCount,
                !.heap = IF Tail(s.queues[cur]) # << >> THEN @ ELSE @ \ {cur},
                !.examined = << seen >>]
        ELSE [s EXCEPT
                !.queues[cur] = << >>,
                !.heap = @ \ {cur},
                !.examined = << seen >>,
                !.didNotFit = @ \cup {curTopTx}]

\* lines 248-273: one iteration of the while loop
SurgeStep ==
    /\ pc = "surge"
    /\ surge.opsLeft > 0 /\ surge.heap # {}
    /\ \E cur \in surgeQueueTop(surge) :
          surge' = surgeStep(surge, cur, app.header)
    /\ UNCHANGED << notTxSetVars, mTransactions, mHashIsValid, mHash, mPreviousLedgerHash,
                    app, pc, last >>

\* lines 274-275: the loop is over; the set becomes updatedSet, hash-sorted
SurgeEnd ==
    /\ pc = "surge"
    /\ ~(surge.opsLeft > 0 /\ surge.heap # {})
    /\ \E s \in sortForHash(surge.updatedSet) :
          /\ mTransactions' = s
          /\ last' = [op |-> "surgePricingFilter", pre |-> surge.pre,
                      ret |-> s,
                      aux |-> [surged |-> TRUE, didNotFit |-> surge.didNotFit]]
    /\ mHashIsValid' = FALSE
    /\ pc' = "idle"
    /\ surge' = NoSurge
    /\ UNCHANGED << notTxSetVars, mHash, mPreviousLedgerHash, app >>

\* ------------------------------------------------- checkOrTrim, checkValid

\* accFee after line 314-321: the sum, saturating at INT64_MAX
AddFee(accFee, fee) ==
    IF INT64_MAX - accFee < fee THEN INT64_MAX ELSE accFee + fee

RemoveAt(q, i) == SubSeq(q, 1, i - 1) \o SubSeq(q, i + 1, Len(q))

\* lines 290-324, for the queue of account a from its i-th element on.
\* st: ok (FALSE once justCheck returned false), trimmed, txs (mTransactions),
\* queues (accountTxMap), accFee (accountFeeMap)
RECURSIVE ValidateQueue(_, _, _, _, _, _)
ValidateQueue(st, a, i, lastSeq, ap, justCheck) ==
    IF ~st.ok \/ i > Len(st.queues[a]) THEN st
    ELSE LET tx == st.queues[a][i]
         IN  IF ~TxCheckValid(tx, ap, lastSeq)
             THEN IF justCheck THEN [st EXCEPT !.ok = FALSE]
                  ELSE ValidateQueue(
                         [st EXCEPT !.trimmed = Append(@, tx),
                                    !.txs = removeTx(@, tx),
                                    !.queues[a] = RemoveAt(@, i)],
                         a, i, lastSeq, ap, justCheck)
             ELSE ValidateQueue(
                    [st EXCEPT !.accFee[getFeeSourceID(tx)] =
                                   AddFee(@, getFeeBid(tx))],
                    a, i + 1, getSeqNum(tx), ap, justCheck)

\* lines 346-351 trimming the i-th transaction alone
TrimRest_HeadOnly(st, a, i) ==
    [st EXCEPT !.trimmed = Append(@, st.queues[a][i]),
               !.txs = removeTx(@, st.queues[a][i])]

\* lines 346-351: every transaction from the i-th on is trimmed
RECURSIVE TrimRest(_, _, _)
TrimRest(st, a, i) ==
    IF i > Len(st.queues[a]) THEN st
    ELSE TrimRest([st EXCEPT !.trimmed = Append(@, st.queues[a][i]),
                             !.txs = removeTx(@, st.queues[a][i])],
                  a, i + 1)

\* lines 330-357, for the queue of account a from its i-th element on
RECURSIVE AffordQueue(_, _, _, _, _)
AffordQueue(st, a, i, ap, justCheck) ==
    IF ~st.ok \/ i > Len(st.queues[a]) THEN st
    ELSE LET tx == st.queues[a][i]
             feeSource == ap.accounts[getFeeSourceID(tx)]
             totFee == st.accFee[getFeeSourceID(tx)]
         IN  IF getAvailableBalance(ap.header, feeSource) < totFee
             THEN IF justCheck THEN [st EXCEPT !.ok = FALSE]
                  ELSE TrimRest(st, a, i)
             ELSE AffordQueue(st, a, i + 1, ap, justCheck)

RECURSIVE ValidateAll(_, _, _, _)
ValidateAll(st, order, ap, justCheck) ==
    IF order = << >> THEN st
    ELSE ValidateAll(ValidateQueue(st, Head(order), 1, 0, ap, justCheck),
                     Tail(order), ap, justCheck)

RECURSIVE AffordAll(_, _, _, _)
AffordAll(st, order, ap, justCheck) ==
    IF order = << >> THEN st
    ELSE AffordAll(AffordQueue(st, Head(order), 1, ap, justCheck),
                   Tail(order), ap, justCheck)

\* the outcomes of checkOrTrim: the accounts of the unordered_map are visited
\* in an order the build decides, the same in both loops
checkOrTrim(txs, ap, justCheck) ==
    { AffordAll(
        ValidateAll([ok |-> TRUE, trimmed |-> << >>, txs |-> txs,
                     queues |-> q, accFee |-> [a \in Accounts |-> 0]],
                    order, ap, justCheck),
        order, ap, justCheck) :
      q \in buildAccountTxQueues(txs),
      order \in Enumerations({ a \in Accounts : TxsOf(txs, a) # {} }) }

\* checkValid without the test that mTransactions is in hash order
checkValid_NoSortTest(txs, prev, ap) ==
    IF ap.lclHash # prev THEN {FALSE}
    ELSE IF size(txs, ap.header) > ap.header.maxTxSetSize THEN {FALSE}
    ELSE { o.ok : o \in checkOrTrim(txs, ap, TRUE) }

\* the values checkValid can return
checkValid(txs, prev, ap) ==
    IF ap.lclHash # prev THEN {FALSE}
    ELSE IF size(txs, ap.header) > ap.header.maxTxSetSize THEN {FALSE}
    ELSE IF ~IsSortedForHash(txs) THEN {FALSE}
    ELSE { o.ok : o \in checkOrTrim(txs, ap, TRUE) }

CheckValid ==
    /\ pc = "idle"
    /\ \E r \in checkValid(mTransactions, mPreviousLedgerHash, app) :
          last' = [op |-> "checkValid", pre |-> mTransactions, ret |-> r,
                   aux |-> << >>]
    /\ UNCHANGED << notTxSetVars, mTransactions, mHashIsValid, mHash, mPreviousLedgerHash,
                    app, pc, surge >>

\* trimInvalid without sortForHash
trimInvalid_NoSort(txs, ap) == checkOrTrim(txs, ap, FALSE)

\* the outcomes of trimInvalid: sortForHash, then checkOrTrim
trimInvalid(txs, ap) ==
    UNION { checkOrTrim(s, ap, FALSE) : s \in sortForHash(txs) }

TrimInvalid ==
    /\ pc = "idle"
    /\ \E o \in trimInvalid(mTransactions, app) :
          /\ mTransactions' = o.txs
          /\ last' = [op |-> "trimInvalid", pre |-> mTransactions,
                      ret |-> o.trimmed, aux |-> << >>]
    /\ mHashIsValid' = FALSE
    /\ UNCHANGED << notTxSetVars, mHash, mPreviousLedgerHash, app, pc, surge >>

\* ------------------------------------------------- getBaseFee, getTotalFees

\* getBaseFee answering the base fee of the header whatever the set holds
getBaseFee_HeaderFee(txs, lh) == lh.baseFee

\* lowBaseFee with the per-operation bid rounded down
RECURSIVE LowBaseFee_RoundDown(_, _)
LowBaseFee_RoundDown(txs, lowBaseFee) ==
    IF txs = << >> THEN lowBaseFee
    ELSE LowBaseFee_RoundDown(Tail(txs),
                              Min(lowBaseFee,
                                  getFeeBid(Head(txs))
                                      \div getNumOperations(Head(txs))))

\* lines 475-483: lowBaseFee after the loop over txs
RECURSIVE LowBaseFee(_, _)
LowBaseFee(txs, lowBaseFee) ==
    IF txs = << >> THEN lowBaseFee
    ELSE LowBaseFee(Tail(txs),
                    Min(lowBaseFee,
                        bigDivideRoundUp(getFeeBid(Head(txs)), 1,
                                         getNumOperations(Head(txs)))))

getBaseFee(txs, lh) ==
    IF lh.ledgerVersion >= OPS_VERSION
    THEN LET ops == sizeOp(txs)
             lowBaseFee == LowBaseFee(txs, INT64_MAX)
             surgeOpsCutoff == IF lh.maxTxSetSize >= MAX_OPS_PER_TX
                               THEN lh.maxTxSetSize - MAX_OPS_PER_TX
                               ELSE 0
         IN  IF ops > surgeOpsCutoff THEN lowBaseFee ELSE lh.baseFee
    ELSE lh.baseFee

GetBaseFee ==
    /\ pc = "idle"
    /\ last' = [op |-> "getBaseFee", pre |-> mTransactions,
                ret |-> getBaseFee(mTransactions, app.header), aux |-> << >>]
    /\ UNCHANGED << notTxSetVars, mTransactions, mHashIsValid, mHash, mPreviousLedgerHash,
                    app, pc, surge >>

\* the fee of each transaction at the set's base fee, as charged when applying
FeesCharged(txs, lh) ==
    [t \in Range(txs) |-> getFee(t, lh, << getBaseFee(txs, lh) >>, TRUE)]

RECURSIVE SumFees(_, _, _)
SumFees(txs, fees, t0) ==
    IF txs = << >> THEN t0
    ELSE SumFees(Tail(txs), fees, t0 + fees[Head(txs)])

getTotalFees(txs, lh) == SumFees(txs, FeesCharged(txs, lh), 0)

GetTotalFees ==
    /\ pc = "idle"
    /\ last' = [op |-> "getTotalFees", pre |-> mTransactions,
                ret |-> getTotalFees(mTransactions, app.header),
                aux |-> FeesCharged(mTransactions, app.header)]
    /\ UNCHANGED << notTxSetVars, mTransactions, mHashIsValid, mHash, mPreviousLedgerHash,
                    app, pc, surge >>

Next ==
    \/ GetContentsHash
    \/ SortForHash
    \/ SetPreviousLedgerHash
    \/ RemoveTx
    \/ SortForApply
    \/ SurgeBegin
    \/ SurgeStep
    \/ SurgeEnd
    \/ CheckValid
    \/ TrimInvalid
    \/ GetBaseFee
    \/ GetTotalFees

Spec == Init /\ [][Next]_vars

\* ------------------------------------------- fee processing of a fee bump

\* the fee-bump frames handed to fee processing: the fields of TxUniverse,
\* the fee of the inner envelope, and whether the fee source signed
FeeBumps ==
    { [env |-> 11, feeBump |-> TRUE, src |-> "A", feeSrc |-> "B", seq |-> 2,
       fee |-> 200, innerOps |-> 1, soroban |-> FALSE, resourceFee |-> 0,
       innerFee |-> 50, signed |-> TRUE],
      [env |-> 12, feeBump |-> TRUE, src |-> "A", feeSrc |-> "A", seq |-> 3,
       fee |-> 90, innerOps |-> 1, soroban |-> TRUE, resourceFee |-> 40,
       innerFee |-> 45, signed |-> TRUE],
      [env |-> 13, feeBump |-> TRUE, src |-> "B", feeSrc |-> "A", seq |-> 1,
       fee |-> 0, innerOps |-> 1, soroban |-> FALSE, resourceFee |-> 0,
       innerFee |-> 0, signed |-> TRUE],
      [env |-> 14, feeBump |-> TRUE, src |-> "B", feeSrc |-> "B", seq |-> 1,
       fee |-> 0 - 5, innerOps |-> 1, soroban |-> FALSE, resourceFee |-> 0,
       innerFee |-> 0, signed |-> FALSE] }

\* the base fee handed to processFeeSeqNum: a std::optional
FeeBaseFees == { << >>, << 10 >>, << 50 >> }

\* the ledger views fee processing starts from; an account is in the view
\* when it is in the domain of accounts
FeeLedgers ==
    { [header |-> [ledgerVersion |-> v, baseFee |-> 10, baseReserve |-> 20,
                   feePool |-> 0],
       accounts |-> acc] :
        v \in {12, 20},
        acc \in { [a \in {"A", "B"} |->
                      [balance |-> IF a = "A" THEN ba ELSE bb,
                       seqNum |-> IF a = "A" THEN 1 ELSE 0,
                       reserve |-> 20, sellingLiabilities |-> 0]] :
                    ba \in {0, 150, 400}, bb \in {70, 400} }
              \cup { [a \in {"A"} |-> [balance |-> 150, seqNum |-> 1,
                                        reserve |-> 20,
                                        sellingLiabilities |-> 0]] } }

\* stellar::loadAccount: << >> when the view has no such account
loadAccount(ltx, id) ==
    IF id \in DOMAIN ltx.accounts THEN << ltx.accounts[id] >> ELSE << >>

\* stellar::addBalance: refuses a result below 0 or above INT64_MAX
addBalance(balance, delta) ==
    IF delta = 0 THEN [ok |-> TRUE, balance |-> balance]
    ELSE IF balance + delta < 0 \/ balance + delta > INT64_MAX
         THEN [ok |-> FALSE, balance |-> balance]
         ELSE [ok |-> TRUE, balance |-> balance + delta]

createResultPayloadWithFeeCharged(tx, header, baseFee, applying) ==
    [code |-> "txFEE_BUMP_INNER_SUCCESS",
     feeCharged |-> getFee(tx, header, baseFee, applying)]

\* processFeeSeqNum deducting the fee asked for, whatever the balance
processFeeSeqNum_NoMin(ltx, tx, baseFee) ==
    LET txResult == createResultPayloadWithFeeCharged(tx, ltx.header, baseFee,
                                                      TRUE)
        id == getFeeSourceID(tx)
        fee == txResult.feeCharged
    IN  IF loadAccount(ltx, id) = << >>
        THEN [thrown |-> TRUE, ltx |-> ltx, txResult |-> txResult]
        ELSE IF fee > 0
        THEN [thrown |-> FALSE,
              ltx |-> [header |-> [ltx.header EXCEPT !.feePool = @ + fee],
                       accounts |-> [ltx.accounts EXCEPT
                                        ![id].balance = @ - fee]],
              txResult |-> txResult]
        ELSE [thrown |-> FALSE, ltx |-> ltx, txResult |-> txResult]

\* processFeeSeqNum also consuming the sequence number of the source account
processFeeSeqNum_SetSeqNum(ltx, tx, baseFee) ==
    [thrown |-> FALSE,
     ltx |-> IF getSourceID(tx) \in DOMAIN ltx.accounts
             THEN [ltx EXCEPT
                      !.accounts[getSourceID(tx)].seqNum = getSeqNum(tx)]
             ELSE ltx,
     txResult |-> createResultPayloadWithFeeCharged(tx, ltx.header, baseFee,
                                                    TRUE)]

\* FeeBumpTransactionFrame::processFeeSeqNum: the view and the result payload
\* it leaves, or thrown when the fee source is not in the view
processFeeSeqNum(ltx, tx, baseFee) ==
    LET txResult == createResultPayloadWithFeeCharged(tx, ltx.header, baseFee,
                                                      TRUE)
        id == getFeeSourceID(tx)
    IN  IF loadAccount(ltx, id) = << >>
        THEN [thrown |-> TRUE, ltx |-> ltx, txResult |-> txResult]
        ELSE IF txResult.feeCharged > 0
        THEN LET acc == loadAccount(ltx, id)[1]
                 fee == Min(acc.balance, txResult.feeCharged)
             IN  [thrown |-> FALSE,
                  ltx |-> [header |-> [ltx.header EXCEPT !.feePool = @ + fee],
                           accounts |-> [ltx.accounts EXCEPT
                               ![id].balance = addBalance(@, 0 - fee).balance]],
                  txResult |-> [txResult EXCEPT !.feeCharged = fee]]
        ELSE [thrown |-> FALSE, ltx |-> ltx, txResult |-> txResult]

\* the least inclusion fee of an envelope of ops operations
getMinInclusionFee(ops, header) == header.baseFee * Max(1, ops)

\* mInnerTx->getInclusionFee()
getInnerInclusionFee(tx) ==
    IF isSoroban(tx) THEN tx.innerFee - declaredSorobanResourceFee(tx)
    ELSE tx.innerFee

\* commonValidPreSeqNum: the result code it sets, "ok" when it returns true
commonValidPreSeqNum(tx, ltx) ==
    LET header == ltx.header
        v1 == bigMultiply(getInclusionFee(tx),
                          getMinInclusionFee(tx.innerOps, header))
        v2 == bigMultiply(getInnerInclusionFee(tx),
                          getMinInclusionFee(getNumOperations(tx), header))
    IN  IF header.ledgerVersion < 13 THEN "txNOT_SUPPORTED"
        ELSE IF getInclusionFee(tx)
                  < getMinInclusionFee(getNumOperations(tx), header)
        THEN "txINSUFFICIENT_FEE"
        ELSE IF getInnerInclusionFee(tx) < 0 THEN "txFEE_BUMP_INNER_FAILED"
        ELSE IF v1 < v2 THEN "txINSUFFICIENT_FEE"
        ELSE IF loadAccount(ltx, getFeeSourceID(tx)) = << >>
        THEN "txNO_ACCOUNT"
        ELSE "ok"

\* commonValid testing the balance before the signatures
commonValid_BalanceFirst(tx, ltx, applying) ==
    LET pre == commonValidPreSeqNum(tx, ltx)
        feeToPay == IF applying THEN 0 ELSE getFullFee(tx)
    IN  IF pre # "ok" THEN [type |-> "kInvalid", code |-> pre]
        ELSE IF getAvailableBalance(ltx.header,
                    loadAccount(ltx, getFeeSourceID(tx))[1]) < feeToPay
        THEN [type |-> "kInvalidPostAuth", code |-> "txINSUFFICIENT_BALANCE"]
        ELSE IF ~tx.signed THEN [type |-> "kInvalid", code |-> "txBAD_AUTH"]
        ELSE [type |-> "kFullyValid", code |-> "txFEE_BUMP_INNER_SUCCESS"]

\* commonValid asking for the full fee in either mode
commonValid_AlwaysFullFee(tx, ltx, applying) ==
    LET pre == commonValidPreSeqNum(tx, ltx)
    IN  IF pre # "ok" THEN [type |-> "kInvalid", code |-> pre]
        ELSE IF ~tx.signed THEN [type |-> "kInvalid", code |-> "txBAD_AUTH"]
        ELSE IF getAvailableBalance(ltx.header,
                    loadAccount(ltx, getFeeSourceID(tx))[1]) < getFullFee(tx)
        THEN [type |-> "kInvalidPostAuth", code |-> "txINSUFFICIENT_BALANCE"]
        ELSE [type |-> "kFullyValid", code |-> "txFEE_BUMP_INNER_SUCCESS"]

\* commonValid: the ValidationType and the result code
commonValid(tx, ltx, applying) ==
    LET pre == commonValidPreSeqNum(tx, ltx)
        feeToPay == IF applying THEN 0 ELSE getFullFee(tx)
    IN  IF pre # "ok" THEN [type |-> "kInvalid", code |-> pre]
        ELSE IF ~tx.signed THEN [type |-> "kInvalid", code |-> "txBAD_AUTH"]
        ELSE IF getAvailableBalance(ltx.header,
                    loadAccount(ltx, getFeeSourceID(tx))[1]) < feeToPay
        THEN [type |-> "kInvalidPostAuth", code |-> "txINSUFFICIENT_BALANCE"]
        ELSE [type |-> "kFullyValid", code |-> "txFEE_BUMP_INNER_SUCCESS"]

ProcessFeeSeqNum ==
    /\ feeLtx # << >>
    /\ \E tx \in FeeBumps, baseFee \in FeeBaseFees :
          LET r == processFeeSeqNum(feeLtx, tx, baseFee)
          IN  /\ feeLtx' = r.ltx
              /\ feeLast' = [tx |-> tx, baseFee |-> baseFee, pre |-> feeLtx,
                             thrown |-> r.thrown, txResult |-> r.txResult]
    /\ UNCHANGED << txSetVars, invokeVars, bumpVars, utilVars >>

\* no transaction set under construction
TxSetOff ==
    /\ mTransactions = << >>
    /\ mHashIsValid = FALSE
    /\ mHash = 0
    /\ mPreviousLedgerHash = 0
    /\ app = << >>
    /\ pc = "off"
    /\ surge = NoSurge
    /\ last = << >>

InitFee ==
    /\ feeLtx \in FeeLedgers
    /\ feeLast = << >>
    /\ TxSetOff
    /\ InvokeOff
    /\ BumpOff
    /\ UtilOff

NextFee == ProcessFeeSeqNum

SpecFee == InitFee /\ [][NextFee]_vars

\* ------------------------------- InvokeHostFunctionOpFrame::doApply: data

\* the keys a footprint can name, and the keys of their ExpirationEntries
FootprintKeys == {"acc", "code", "pdata", "tdata"}

ExpirationKeys == {"exp_code", "exp_pdata", "exp_tdata"}

LedgerKeys == FootprintKeys \cup ExpirationKeys

keyType(lk) ==
    CASE lk = "acc" -> "ACCOUNT"
      [] lk = "code" -> "CONTRACT_CODE"
      [] lk \in {"pdata", "tdata"} -> "CONTRACT_DATA"
      [] OTHER -> "EXPIRATION"

isSorobanEntry(lk) == keyType(lk) \in {"CONTRACT_CODE", "CONTRACT_DATA"}

isTemporaryEntry(lk) == lk = "tdata"

isCodeKey(lk) == keyType(lk) = "CONTRACT_CODE"

getExpirationKey(lk) ==
    CASE lk = "code" -> "exp_code"
      [] lk = "pdata" -> "exp_pdata"
      [] lk = "tdata" -> "exp_tdata"

\* an ExpirationEntry is live up to and including its expiration ledger
isLive(e, ledgerSeq) == e.expirationLedgerSeq >= ledgerSeq

\* a ledger entry: its key, the size of its XDR, the size of its code when
\* it is contract code, its expiration ledger when it is an ExpirationEntry
LedgerEntry(lk, sz, codeSz, expSeq) ==
    [key |-> lk, size |-> sz, codeSize |-> codeSz,
     expirationLedgerSeq |-> expSeq]

LedgerEntryKey(le) == le.key

\* the entry of a key as the ledger holds it before the invocation
StoredEntry(lk) ==
    IF lk = "acc" THEN LedgerEntry(lk, 1, 0, 0)
    ELSE IF lk = "code" THEN LedgerEntry(lk, 2, 1, 0)
    ELSE LedgerEntry(lk, 2, 0, 0)

\* the views an invocation starts from, at ledgerSeq 5: the account is there,
\* every contract entry is absent, live or expired, and has its
\* ExpirationEntry exactly when it is there
InvokeViews ==
    { [lk \in LedgerKeys |->
          IF lk = "acc" THEN << StoredEntry(lk) >>
          ELSE IF lk \in FootprintKeys
          THEN (IF st[lk] = "absent" THEN << >> ELSE << StoredEntry(lk) >>)
          ELSE LET of == CHOOSE k \in FootprintKeys \ {"acc"} :
                             getExpirationKey(k) = lk
               IN  IF st[of] = "absent" THEN << >>
                   ELSE << LedgerEntry(lk, 1, 0,
                                IF st[of] = "live" THEN 9 ELSE 4) >>] :
        st \in [FootprintKeys \ {"acc"} -> {"absent", "live", "expired"}] }

\* the operations: footprint, declared resources, the refundable fee reserve
\* of the transaction
InvokeOps ==
    { [readOnly |-> f[1], readWrite |-> f[2], readBytes |-> rb,
       writeBytes |-> wb, instructions |-> 10, refundableFee |-> 6,
       ledgerSeq |-> 5] :
        f \in { << << "code" >>, << "pdata" >> >>,
                << << "acc", "code" >>, << "tdata", "pdata" >> >>,
                << << "pdata" >>, << "code", "tdata" >> >>,
                << << >>, << "pdata", "tdata", "code" >> >> },
        rb \in {4, 20}, wb \in {3, 20} }

\* app.getLedgerManager().getSorobanNetworkConfig(ltx) and app.getConfig()
sorobanConfig ==
    [maxContractSizeBytes |-> 2, maxContractDataEntrySizeBytes |-> 3,
     txMemoryLimit |-> 8, txMaxContractEventsSizeBytes |-> 4,
     ENABLE_SOROBAN_DIAGNOSTIC_EVENTS |-> TRUE]

\* the lists of modified entries a host call can return
HostWrites ==
    { << >>,
      << LedgerEntry("pdata", 3, 0, 0), LedgerEntry("exp_pdata", 1, 0, 9) >>,
      << LedgerEntry("pdata", 4, 0, 0), LedgerEntry("exp_pdata", 1, 0, 9) >>,
      << LedgerEntry("code", 2, 1, 0), LedgerEntry("exp_code", 1, 0, 9),
         LedgerEntry("tdata", 2, 0, 0), LedgerEntry("exp_tdata", 1, 0, 9) >>,
      << LedgerEntry("exp_code", 1, 0, 9), LedgerEntry("code", 4, 3, 0) >>,
      << LedgerEntry("pdata", 2, 0, 0) >>,
      << LedgerEntry("acc", 1, 0, 0), LedgerEntry("tdata", 1, 0, 0),
         LedgerEntry("exp_tdata", 1, 0, 9) >> }

\* rust_bridge::invoke_host_function: what the host can return for an
\* operation. The host traps a call that exceeds the instruction budget or the
\* memory limit, so it reports success only within both.
HostOutputs(op) ==
    { [success |-> FALSE, thrown |-> FALSE, cpu_insns |-> c, mem_bytes |-> m,
       modified_ledger_entries |-> w, contract_events |-> << >>,
       result_value |-> 0, rent_fee |-> 0] :
        c \in {op.instructions, op.instructions + 1},
        m \in {sorobanConfig.txMemoryLimit, sorobanConfig.txMemoryLimit + 1},
        w \in { x \in HostWrites : Len(x) \in {0, 3} } }
    \cup
    { [success |-> TRUE, thrown |-> FALSE, cpu_insns |-> op.instructions,
       mem_bytes |-> sorobanConfig.txMemoryLimit,
       modified_ledger_entries |-> w, contract_events |-> e,
       result_value |-> r, rent_fee |-> f] :
        w \in HostWrites, e \in { << >>, << 2 >>, << 3, 2 >> },
        r \in {1, 3}, f \in {0, 5} }

\* the output doApply is left with when the host call throws: the default one
HostThrew ==
    [success |-> FALSE, thrown |-> TRUE, cpu_insns |-> 0, mem_bytes |-> 0,
     modified_ledger_entries |-> << >>, contract_events |-> << >>,
     result_value |-> 0, rent_fee |-> 0]

\* ---------------------------- InvokeHostFunctionOpFrame::doApply: the steps

\* the view of the operation, opened over the entries of its parent: its own
\* entries, and the keys recorded in it by load, create and erase
\* (loadWithoutRecord records nothing)
LedgerTxnOver(entries) ==
    [opened |-> entries, entries |-> entries, recorded |-> {}]

\* addReads reading every key without the expiration test
RECURSIVE addReads_NoExpirationTest(_, _, _, _)
addReads_NoExpirationTest(ltx, op, keys, st) ==
    IF keys = << >> THEN st
    ELSE LET lk == Head(keys)
             ltxe == ltx.entries[lk]
             exp == IF ltxe # << >> /\ isSorobanEntry(lk)
                    THEN ltx.entries[getExpirationKey(lk)] ELSE << >>
             entrySize == IF ltxe = << >> THEN 0
                          ELSE ltxe[1].size
                               + (IF exp # << >> THEN exp[1].size ELSE 0)
             st2 == [st EXCEPT
                        !.ledgerEntryCxxBufs =
                            IF ltxe # << >>
                            THEN Append(@, [entry |-> ltxe[1],
                                            expiration |-> exp])
                            ELSE @,
                        !.mLedgerReadByte = @ + entrySize,
                        !.mReadEntry = @ + 1]
         IN  IF op.readBytes < st2.mLedgerReadByte
             THEN [st2 EXCEPT !.ok = FALSE,
                     !.code = "INVOKE_HOST_FUNCTION_RESOURCE_LIMIT_EXCEEDED",
                     !.error = "operation byte-read resources exceeds amount specified"]
             ELSE addReads_NoExpirationTest(ltx, op, Tail(keys), st2)

\* addReads going on after a key took the bytes read above readBytes
RECURSIVE addReads_NoReadLimit(_, _, _, _)
addReads_NoReadLimit(ltx, op, keys, st) ==
    IF keys = << >> THEN st
    ELSE LET lk == Head(keys)
             ltxe == ltx.entries[lk]
             exp == IF ltxe # << >> /\ isSorobanEntry(lk)
                    THEN ltx.entries[getExpirationKey(lk)] ELSE << >>
             expired == exp # << >> /\ ~isLive(exp[1], op.ledgerSeq)
         IN  IF expired /\ ~isTemporaryEntry(lk)
             THEN [st EXCEPT !.ok = FALSE,
                     !.code = "INVOKE_HOST_FUNCTION_ENTRY_EXPIRED"]
             ELSE
             LET shouldAddEntry == ltxe # << >> /\ ~expired
                 entrySize == IF ~shouldAddEntry THEN 0
                              ELSE ltxe[1].size
                                   + (IF exp # << >> THEN exp[1].size ELSE 0)
                 st2 == [st EXCEPT
                            !.ledgerEntryCxxBufs =
                                IF shouldAddEntry
                                THEN Append(@, [entry |-> ltxe[1],
                                                expiration |-> exp])
                                ELSE @,
                            !.mLedgerReadByte = @ + entrySize,
                            !.mReadEntry = @ + 1]
             IN  addReads_NoReadLimit(ltx, op, Tail(keys), st2)

\* addReads over one key list: st holds ok, the result code, the buffers for
\* the host, metrics.mLedgerReadByte and metrics.mReadEntry
RECURSIVE addReads(_, _, _, _)
addReads(ltx, op, keys, st) ==
    IF keys = << >> THEN st
    ELSE LET lk == Head(keys)
             ltxe == ltx.entries[lk]
             exp == IF ltxe # << >> /\ isSorobanEntry(lk)
                    THEN ltx.entries[getExpirationKey(lk)] ELSE << >>
         IN  IF ltxe # << >> /\ isSorobanEntry(lk) /\ exp = << >>
             THEN [st EXCEPT !.ok = FALSE, !.thrown = TRUE]
             ELSE
             LET expired == exp # << >> /\ ~isLive(exp[1], op.ledgerSeq)
             IN  IF expired /\ ~isTemporaryEntry(lk)
                 THEN [st EXCEPT !.ok = FALSE,
                         !.code = "INVOKE_HOST_FUNCTION_ENTRY_EXPIRED"]
                 ELSE
                 LET shouldAddEntry == ltxe # << >> /\ ~expired
                     entrySize ==
                         IF ~shouldAddEntry THEN 0
                         ELSE ltxe[1].size
                              + (IF exp # << >> THEN exp[1].size ELSE 0)
                     st2 == [st EXCEPT
                                !.ledgerEntryCxxBufs =
                                    IF shouldAddEntry
                                    THEN Append(@, [entry |-> ltxe[1],
                                                    expiration |-> exp])
                                    ELSE @,
                                !.mLedgerReadByte = @ + entrySize,
                                !.mReadEntry = @ + 1]
                 IN  IF op.readBytes < st2.mLedgerReadByte
                     THEN [st2 EXCEPT !.ok = FALSE, !.code =
                             "INVOKE_HOST_FUNCTION_RESOURCE_LIMIT_EXCEEDED",
                             !.error = "operation byte-read resources exceeds amount specified"]
                     ELSE addReads(ltx, op, Tail(keys), st2)

\* the locals of doApply when it is entered
DoApplyEntered ==
    [pc |-> "Gathering", ok |-> TRUE, thrown |-> FALSE, code |-> "none",
     error |-> "none",
     ledgerEntryCxxBufs |-> << >>, mLedgerReadByte |-> 0, mReadEntry |-> 0,
     hostCalls |-> 0, out |-> << >>, mLedgerWriteByte |-> 0,
     createdAndModifiedKeys |-> {}, createdKeys |-> {},
     mEmitEventByte |-> 0, diagnosticCalls |-> 0, consumed |-> 0,
     contractEvents |-> << >>, returnValue |-> << >>]

\* where doApply stands after a step that left st
After(st, next) ==
    [st EXCEPT !.pc = IF st.thrown THEN "thrown"
                      ELSE IF ~st.ok THEN "returned" ELSE next]

\* doApply up to the host call: addReads(readOnly), then addReads(readWrite)
GatherFootprint ==
    /\ ivRun # << >>
    /\ ivRun.pc = "Gathering"
    /\ LET ro == addReads(ivLtx, ivOp, ivOp.readOnly, ivRun)
           rw == IF ro.ok THEN addReads(ivLtx, ivOp, ivOp.readWrite, ro)
                 ELSE ro
       IN  ivRun' = After(rw, "Invoking")
    /\ UNCHANGED << txSetVars, feeVars, bumpVars, utilVars, ivParent, ivLtx, ivOp >>

\* maybePopulateDiagnosticEvents pushes the diagnostic events when enabled
maybePopulateDiagnosticEvents(st) ==
    IF sorobanConfig.ENABLE_SOROBAN_DIAGNOSTIC_EVENTS
    THEN [st EXCEPT !.diagnosticCalls = @ + 1] ELSE st

\* the result for a host that failed, testing the memory limit first and
\* reporting a trap for exceeded instructions
hostFailure_MemoryFirst(op, out) ==
    IF sorobanConfig.txMemoryLimit < out.mem_bytes
    THEN [code |-> "INVOKE_HOST_FUNCTION_RESOURCE_LIMIT_EXCEEDED",
          error |-> "operation memory usage exceeds network config limit"]
    ELSE [code |-> "INVOKE_HOST_FUNCTION_TRAPPED", error |-> "none"]

\* the result for a host that failed, reporting a trap whatever was consumed
hostFailure_AlwaysTrapped(op, out) ==
    [code |-> "INVOKE_HOST_FUNCTION_TRAPPED", error |-> "none"]

\* the result code doApply sets, and the diagnostic error it pushes, when
\* out.success is false
hostFailure(op, out) ==
    IF op.instructions < out.cpu_insns
    THEN [code |-> "INVOKE_HOST_FUNCTION_RESOURCE_LIMIT_EXCEEDED",
          error |-> "operation instructions exceeds amount specified"]
    ELSE IF sorobanConfig.txMemoryLimit < out.mem_bytes
    THEN [code |-> "INVOKE_HOST_FUNCTION_RESOURCE_LIMIT_EXCEEDED",
          error |-> "operation memory usage exceeds network config limit"]
    ELSE [code |-> "INVOKE_HOST_FUNCTION_TRAPPED", error |-> "none"]

\* the host call going on to write-back whatever out.success says
invokeHost_IgnoreFailure(op, st, out) ==
    [st EXCEPT !.hostCalls = @ + 1, !.out = << out >>]

\* the host call and the test of out.success after it
invokeHost(op, st, out) ==
    LET called == [st EXCEPT !.hostCalls = @ + 1, !.out = << out >>]
    IN  IF out.success THEN called
        ELSE [(IF out.thrown THEN called
               ELSE maybePopulateDiagnosticEvents(called))
                EXCEPT !.ok = FALSE, !.code = hostFailure(op, out).code,
                       !.error = hostFailure(op, out).error]

InvokeHost ==
    /\ ivRun # << >>
    /\ ivRun.pc = "Invoking"
    /\ \E out \in HostOutputs(ivOp) \cup {HostThrew} :
          ivRun' = After(invokeHost(ivOp, ivRun, out), "WritingBack")
    /\ UNCHANGED << txSetVars, feeVars, bumpVars, utilVars, ivParent, ivLtx, ivOp >>

\* validateContractLedgerEntry accepting an entry of any size
validateContractLedgerEntry_AnySize(le, entrySize) == TRUE

validateContractLedgerEntry(le, entrySize) ==
    IF keyType(LedgerEntryKey(le)) = "CONTRACT_CODE"
       /\ sorobanConfig.maxContractSizeBytes < le.codeSize
    THEN FALSE
    ELSE IF keyType(LedgerEntryKey(le)) = "CONTRACT_DATA"
            /\ sorobanConfig.maxContractDataEntrySizeBytes < entrySize
    THEN FALSE
    ELSE TRUE

\* ltx.load followed by an assignment, or ltx.create
storeEntry(ltx, le) ==
    [ltx EXCEPT !.entries[LedgerEntryKey(le)] = << le >>,
                !.recorded = @ \cup {LedgerEntryKey(le)}]

\* ltx.erase
eraseEntry(ltx, lk) ==
    [ltx EXCEPT !.entries[lk] = << >>, !.recorded = @ \cup {lk}]

\* the loop over out.modified_ledger_entries: w holds the view and the locals
RECURSIVE writeEntries(_, _, _)
writeEntries(op, les, w) ==
    IF les = << >> THEN w
    ELSE LET le == Head(les)
             lk == LedgerEntryKey(le)
             fail == [w EXCEPT !.st.ok = FALSE, !.st.code =
                        "INVOKE_HOST_FUNCTION_RESOURCE_LIMIT_EXCEEDED",
                        !.st.error = "entry size exceeds network config maximum size"]
         IN  IF ~validateContractLedgerEntry(le, le.size) THEN fail
             ELSE
             LET noted == [w EXCEPT
                             !.st.createdAndModifiedKeys = @ \cup {lk},
                             !.st.mLedgerWriteByte =
                                 IF keyType(lk) # "EXPIRATION"
                                 THEN @ + le.size ELSE @]
             IN  IF keyType(lk) # "EXPIRATION"
                    /\ op.writeBytes < noted.st.mLedgerWriteByte
                 THEN [noted EXCEPT !.st.ok = FALSE, !.st.code =
                         "INVOKE_HOST_FUNCTION_RESOURCE_LIMIT_EXCEEDED",
                         !.st.error = "operation byte-write resources exceeds amount specified"]
                 ELSE writeEntries(op, Tail(les),
                         [noted EXCEPT
                             !.ltx = storeEntry(@, le),
                             !.st.createdKeys =
                                 IF w.ltx.entries[lk] = << >>
                                 THEN @ \cup {lk} ELSE @])

\* the created keys taken as they are, without the assertion
createdWithExpiration_Unchecked(createdKeys) == TRUE

\* every created contract entry comes with a created ExpirationEntry
createdWithExpiration(createdKeys) ==
    \A key \in createdKeys :
        isSorobanEntry(key) => getExpirationKey(key) \in createdKeys

\* the loop erasing the readWrite keys the host did not return
RECURSIVE eraseNotReturned(_, _)
eraseNotReturned(keys, w) ==
    IF keys = << >> THEN w
    ELSE LET lk == Head(keys)
         IN  IF lk \in w.st.createdAndModifiedKeys
             THEN eraseNotReturned(Tail(keys), w)
             ELSE IF w.ltx.entries[lk] = << >>
             THEN eraseNotReturned(Tail(keys), w)
             ELSE IF ~isSorobanEntry(lk)
             THEN eraseNotReturned(Tail(keys),
                      [w EXCEPT !.ltx = eraseEntry(@, lk)])
             ELSE IF w.ltx.entries[getExpirationKey(lk)] = << >>
             THEN [w EXCEPT !.ltx = eraseEntry(@, lk), !.st.ok = FALSE,
                            !.st.thrown = TRUE]
             ELSE eraseNotReturned(Tail(keys),
                      [w EXCEPT !.ltx = eraseEntry(eraseEntry(@, lk),
                                                   getExpirationKey(lk))])

\* write-back keeping the readWrite keys the host did not return
writeBack_NoErase(op, ltx, st) ==
    writeEntries(op, st.out[1].modified_ledger_entries,
                 [ltx |-> ltx, st |-> st])

\* write-back erasing the keys of the whole footprint that the host did not
\* return, the readOnly ones included
writeBack_EraseFootprint(op, ltx, st) ==
    LET written == writeEntries(op, st.out[1].modified_ledger_entries,
                                [ltx |-> ltx, st |-> st])
    IN  IF ~written.st.ok THEN written
        ELSE IF ~createdWithExpiration(written.st.createdKeys)
        THEN [written EXCEPT !.st.ok = FALSE, !.st.thrown = TRUE]
        ELSE eraseNotReturned(op.readOnly \o op.readWrite, written)

\* write-back: create or update every entry returned, erase every entry not
\* returned
writeBack(op, ltx, st) ==
    LET written == writeEntries(op, st.out[1].modified_ledger_entries,
                                [ltx |-> ltx, st |-> st])
    IN  IF ~written.st.ok THEN written
        ELSE IF ~createdWithExpiration(written.st.createdKeys)
        THEN [written EXCEPT !.st.ok = FALSE, !.st.thrown = TRUE]
        ELSE eraseNotReturned(op.readWrite, written)

WriteBack ==
    /\ ivRun # << >>
    /\ ivRun.pc = "WritingBack"
    /\ LET w == writeBack(ivOp, ivLtx, ivRun)
       IN  /\ ivLtx' = w.ltx
           /\ ivRun' = After(w.st, "Finalizing")
    /\ UNCHANGED << txSetVars, feeVars, bumpVars, utilVars, ivParent, ivOp >>

\* the loop over out.contract_events: metrics.mEmitEventByte after it, and
\* whether it stayed within txMaxContractEventsSizeBytes
RECURSIVE emitEvents(_, _)
emitEvents(events, st) ==
    IF events = << >> THEN st
    ELSE LET st2 == [st EXCEPT !.mEmitEventByte = @ + Head(events)]
         IN  IF sorobanConfig.txMaxContractEventsSizeBytes
                    < st2.mEmitEventByte
             THEN [st2 EXCEPT !.ok = FALSE, !.code =
                     "INVOKE_HOST_FUNCTION_RESOURCE_LIMIT_EXCEEDED",
                     !.error = "total events size exceeds network config maximum"]
             ELSE emitEvents(Tail(events), st2)

\* mParentTx.consumeRefundableSorobanResources: the rent fee and the fee of
\* the event bytes, one per byte, are taken from the refundable fee reserve
consumeRefundableSorobanResources(op, eventBytes, rentFee) ==
    IF rentFee + eventBytes > op.refundableFee
    THEN [ok |-> FALSE, consumed |-> 0]
    ELSE [ok |-> TRUE, consumed |-> rentFee + eventBytes]

\* finalizing without any size or fee test
finalize_NoTests(op, st) ==
    [maybePopulateDiagnosticEvents(st) EXCEPT
        !.code = "INVOKE_HOST_FUNCTION_SUCCESS",
        !.contractEvents = << st.out[1].contract_events >>,
        !.returnValue = << st.out[1].result_value >>]

\* finalizing with the events and the return value handed to the transaction
\* before the size and fee tests
finalize_RecordFirst(op, st) ==
    LET out == st.out[1]
        pushed == [st EXCEPT !.contractEvents = << out.contract_events >>,
                             !.returnValue = << out.result_value >>]
        emitted == emitEvents(out.contract_events, pushed)
    IN  IF ~emitted.ok THEN emitted
        ELSE
        LET st2 == [maybePopulateDiagnosticEvents(emitted) EXCEPT
                       !.mEmitEventByte = @ + out.result_value]
            fee == consumeRefundableSorobanResources(op, st2.mEmitEventByte,
                                                     out.rent_fee)
        IN  IF sorobanConfig.txMaxContractEventsSizeBytes
                   < st2.mEmitEventByte
            THEN [st2 EXCEPT !.ok = FALSE, !.code =
                    "INVOKE_HOST_FUNCTION_RESOURCE_LIMIT_EXCEEDED"]
            ELSE IF ~fee.ok
            THEN [st2 EXCEPT !.ok = FALSE, !.code =
                    "INVOKE_HOST_FUNCTION_INSUFFICIENT_REFUNDABLE_FEE"]
            ELSE [st2 EXCEPT !.code = "INVOKE_HOST_FUNCTION_SUCCESS",
                             !.consumed = fee.consumed]

\* doApply after write-back: events, return value, refundable fee, success,
\* and only then mParentTx.pushContractEvents and mParentTx.setReturnValue
finalize(op, st) ==
    LET out == st.out[1]
        emitted == emitEvents(out.contract_events, st)
    IN  IF ~emitted.ok THEN emitted
        ELSE
        LET st2 == [maybePopulateDiagnosticEvents(emitted) EXCEPT
                       !.mEmitEventByte = @ + out.result_value]
            fee == consumeRefundableSorobanResources(op, st2.mEmitEventByte,
                                                     out.rent_fee)
        IN  IF sorobanConfig.txMaxContractEventsSizeBytes
                   < st2.mEmitEventByte
            THEN [st2 EXCEPT !.ok = FALSE, !.code =
                    "INVOKE_HOST_FUNCTION_RESOURCE_LIMIT_EXCEEDED",
                    !.error = "return value pushes events size above network config maximum"]
            ELSE IF ~fee.ok
            THEN [st2 EXCEPT !.ok = FALSE, !.code =
                    "INVOKE_HOST_FUNCTION_INSUFFICIENT_REFUNDABLE_FEE"]
            ELSE [st2 EXCEPT !.code = "INVOKE_HOST_FUNCTION_SUCCESS",
                             !.consumed = fee.consumed,
                             !.contractEvents = << out.contract_events >>,
                             !.returnValue = << out.result_value >>]

Finalize ==
    /\ ivRun # << >>
    /\ ivRun.pc = "Finalizing"
    /\ ivRun' = After(finalize(ivOp, ivRun), "returned")
    /\ UNCHANGED << txSetVars, feeVars, bumpVars, utilVars, ivParent, ivLtx, ivOp >>

\* the caller of doApply: the operation ran in a view of its own, which is
\* committed to its parent when doApply returned true and discarded when it
\* returned false or threw
ApplyOperation ==
    /\ ivRun # << >>
    /\ ivRun.pc \in {"returned", "thrown"}
    /\ ivParent' = IF ivRun.pc = "returned" /\ ivRun.ok THEN ivLtx.entries
                   ELSE ivParent
    /\ ivRun' = [ivRun EXCEPT !.pc = "done"]
    /\ UNCHANGED << txSetVars, feeVars, bumpVars, utilVars, ivLtx, ivOp >>

InitInvoke ==
    /\ ivParent \in InvokeViews
    /\ ivLtx = LedgerTxnOver(ivParent)
    /\ ivOp \in InvokeOps
    /\ ivRun = DoApplyEntered
    /\ TxSetOff
    /\ FeeOff
    /\ BumpOff
    /\ UtilOff

NextInvoke ==
    \/ GatherFootprint
    \/ InvokeHost
    \/ WriteBack
    \/ Finalize
    \/ ApplyOperation

SpecInvoke == InitInvoke /\ [][NextInvoke]_vars

\* ------------- FeeBumpTransactionFrame: checkValid, apply, processPostApply

\* the fee bumps validated and applied: the fee per operation of 21 equals
\* that of its inner transaction (100 over 2 operations, 50 over 1), that of
\* 22 is below it and that of 23 above it; 24 and 25 wrap Soroban
\* transactions, 24 at the same inclusion fee per operation; 26 is not signed
\* by its fee source
BumpTxs ==
    { [env |-> 21, feeBump |-> TRUE, src |-> "A", feeSrc |-> "B", seq |-> 2,
       fee |-> 100, innerOps |-> 1, soroban |-> FALSE, resourceFee |-> 0,
       innerFee |-> 50, signed |-> TRUE],
      [env |-> 22, feeBump |-> TRUE, src |-> "A", feeSrc |-> "B", seq |-> 2,
       fee |-> 99, innerOps |-> 1, soroban |-> FALSE, resourceFee |-> 0,
       innerFee |-> 50, signed |-> TRUE],
      [env |-> 23, feeBump |-> TRUE, src |-> "A", feeSrc |-> "B", seq |-> 2,
       fee |-> 101, innerOps |-> 1, soroban |-> FALSE, resourceFee |-> 0,
       innerFee |-> 50, signed |-> TRUE],
      [env |-> 24, feeBump |-> TRUE, src |-> "B", feeSrc |-> "A", seq |-> 1,
       fee |-> 140, innerOps |-> 1, soroban |-> TRUE, resourceFee |-> 40,
       innerFee |-> 90, signed |-> TRUE],
      [env |-> 25, feeBump |-> TRUE, src |-> "A", feeSrc |-> "A", seq |-> 2,
       fee |-> 200, innerOps |-> 1, soroban |-> TRUE, resourceFee |-> 40,
       innerFee |-> 60, signed |-> TRUE],
      [env |-> 26, feeBump |-> TRUE, src |-> "A", feeSrc |-> "B", seq |-> 2,
       fee |-> 120, innerOps |-> 1, soroban |-> FALSE, resourceFee |-> 0,
       innerFee |-> 50, signed |-> FALSE] }

\* mInnerTx: the transaction the fee bump wraps
getInnerTx(tx) ==
    [env |-> tx.env + 100, feeBump |-> FALSE, src |-> tx.src,
     feeSrc |-> tx.src, seq |-> tx.seq, fee |-> tx.innerFee,
     innerOps |-> tx.innerOps, soroban |-> tx.soroban,
     resourceFee |-> tx.resourceFee]

\* SignerKeyUtils::preAuthTxKey: the signer key made of the transaction's hash
preAuthTxKey(tx) == << "PRE_AUTH_TX", tx.env >>

\* a signer key of another kind
OtherSignerKey == << "ED25519", 7 >>

\* the ledger views a fee bump is validated and applied in; the accounts carry
\* their signers, and the fee source may hold the one-time signer of tx
BumpLedgers(tx) ==
    { [header |-> [ledgerVersion |-> v, baseFee |-> 10, baseReserve |-> 20,
                   feePool |-> 0],
       accounts |-> acc] :
        v \in {12, 20, 21},
        acc \in { [a \in {"A", "B"} |->
                      [balance |-> IF a = "A" THEN ba ELSE bb,
                       seqNum |-> 0, reserve |-> 20,
                       sellingLiabilities |-> 0,
                       signers |-> IF a = getFeeSourceID(tx) THEN sg
                                   ELSE {OtherSignerKey}]] :
                    ba \in {30, 400}, bb \in {400},
                    sg \in SUBSET {preAuthTxKey(tx), OtherSignerKey} }
              \cup { [a \in {"A"} |-> [balance |-> 400, seqNum |-> 0,
                                        reserve |-> 20,
                                        sellingLiabilities |-> 0,
                                        signers |-> {}]] } }

\* XDRProvidesValidFee: the full fee is not negative, and the inner
\* transaction provides a valid fee
XDRProvidesValidFee(tx) ==
    IF getFullFee(tx) < 0 THEN FALSE
    ELSE tx.innerFee >= 0 /\ tx.resourceFee >= 0

\* FeeBumpTransactionFrame::checkValid: the pair of the flag and the result
\* code; innerRes is what mInnerTx->checkValidWithOptionallyChargedFee says
FeeBumpCheckValid(tx, ltx, allSignaturesUsed, innerRes) ==
    IF ~XDRProvidesValidFee(tx)
    THEN [res |-> FALSE, code |-> "txMALFORMED", innerValidated |-> FALSE]
    ELSE LET cv == commonValid(tx, ltx, FALSE)
         IN  IF cv.type # "kFullyValid"
             THEN [res |-> FALSE, code |-> cv.code, innerValidated |-> FALSE]
             ELSE IF ~allSignaturesUsed
             THEN [res |-> FALSE, code |-> "txBAD_AUTH_EXTRA",
                   innerValidated |-> FALSE]
             ELSE [res |-> innerRes,
                   code |-> IF innerRes THEN "txFEE_BUMP_INNER_SUCCESS"
                            ELSE "txFEE_BUMP_INNER_FAILED",
                   innerValidated |-> TRUE]

\* the locals of a fee bump that was just received
BumpSubmitted ==
    [pc |-> "submitted", valid |-> << >>, txResult |-> << >>,
     res |-> << >>, fault |-> "none", charged |-> << >>, removed |-> << >>,
     inner |-> << >>, refund |-> << >>, beforePost |-> << >>,
     allSignaturesUsed |-> << >>, ltxOuter |-> << >>, cv |-> << >>,
     earlier |-> << >>]

BumpCheckValid ==
    /\ fbRun # << >>
    /\ fbRun.pc = "submitted"
    /\ \E allSignaturesUsed \in BOOLEAN, innerRes \in BOOLEAN :
          LET r == FeeBumpCheckValid(fbTx, fbLtx, allSignaturesUsed, innerRes)
          IN  fbRun' = [fbRun EXCEPT !.valid = << r >>,
                           !.allSignaturesUsed = << allSignaturesUsed >>,
                           !.ltxOuter = << fbLtx >>,
                           !.pc = IF r.res THEN "valid" ELSE "rejected"]
    /\ UNCHANGED << txSetVars, feeVars, invokeVars, utilVars, fbTx, fbLtx >>

\* FeeBumpMutableTransactionResult: the result of the fee bump, the result
\* payload of the inner transaction and the inner result pair
bumpPayload(tx, header, baseFee, txResult) ==
    [code |-> txResult.code, feeCharged |-> txResult.feeCharged,
     inner |-> [code |-> "txSUCCESS",
                feeCharged |-> getFee(getInnerTx(tx), header, baseFee, TRUE)],
     innerPair |-> [code |-> "txSUCCESS",
                    feeCharged |-> getFee(getInnerTx(tx), header, baseFee,
                                          TRUE)]]

BumpProcessFeeSeqNum ==
    /\ fbRun # << >>
    /\ fbRun.pc = "valid"
    /\ \E baseFee \in FeeBaseFees :
          LET r == processFeeSeqNum(fbLtx, fbTx, baseFee)
          IN  /\ fbLtx' = r.ltx
              /\ fbRun' = [fbRun EXCEPT
                    !.pc = IF r.thrown THEN "aborted" ELSE "charged",
                    !.fault = IF r.thrown THEN "fees" ELSE @,
                    !.charged = << r.ltx >>,
                    !.txResult = << bumpPayload(fbTx, fbLtx.header, baseFee,
                                                r.txResult) >>]
    /\ UNCHANGED << txSetVars, feeVars, invokeVars, utilVars, fbTx >>

\* removeOneTimeSignerKeyFromFeeSource leaving the signers as they are
removeOneTimeSignerKeyFromFeeSource_Keep(ltx, tx) == ltx

\* removeOneTimeSignerKeyFromFeeSource: the view without the signer of the
\* fee source whose key is the pre-authorized transaction key of tx
removeOneTimeSignerKeyFromFeeSource(ltx, tx) ==
    IF loadAccount(ltx, getFeeSourceID(tx)) = << >> THEN ltx
    ELSE IF preAuthTxKey(tx)
              \in loadAccount(ltx, getFeeSourceID(tx))[1].signers
    THEN [ltx EXCEPT !.accounts[getFeeSourceID(tx)].signers =
                         @ \ {preAuthTxKey(tx)}]
    ELSE ltx

\* the first try block of apply: the signer is removed in a view of its own,
\* ltxTx, which is committed to ltx; anything thrown aborts the process
applyRemoveSigner(ltx, tx, threw) ==
    IF threw THEN [aborted |-> TRUE, ltx |-> ltx]
    ELSE [aborted |-> FALSE,
          ltx |-> removeOneTimeSignerKeyFromFeeSource(ltx, tx)]

BumpRemoveSigner ==
    /\ fbRun # << >>
    /\ fbRun.pc = "charged"
    /\ \E threw \in BOOLEAN :
          LET r == applyRemoveSigner(fbLtx, fbTx, threw)
          IN  /\ fbLtx' = r.ltx
              /\ fbRun' = [fbRun EXCEPT
                    !.pc = IF r.aborted THEN "aborted" ELSE "signerRemoved",
                    !.fault = IF r.aborted THEN "removal" ELSE @,
                    !.removed = IF r.aborted THEN @ ELSE << r.ltx >>]
    /\ UNCHANGED << txSetVars, feeVars, invokeVars, utilVars, fbTx >>

\* mInnerTx->apply: what applying the inner transaction in ltx may come to.
\* It throws, or it fails before or after consuming the sequence number, with
\* the changes of its operations rolled back, or it succeeds
InnerApplies(ltx, tx) ==
    LET src == getSourceID(tx)
        consumed == [ltx EXCEPT !.accounts[src].seqNum = getSeqNum(tx)]
    IN  { [thrown |-> TRUE, res |-> FALSE, code |-> "none", ltx |-> ltx] }
        \cup
        (IF src \notin DOMAIN ltx.accounts
         THEN { [thrown |-> FALSE, res |-> FALSE, code |-> "txNO_ACCOUNT",
                 ltx |-> ltx] }
         ELSE { [thrown |-> FALSE, res |-> FALSE, code |-> "txBAD_SEQ",
                 ltx |-> ltx],
                [thrown |-> FALSE, res |-> FALSE, code |-> "txFAILED",
                 ltx |-> consumed],
                [thrown |-> FALSE, res |-> TRUE, code |-> "txSUCCESS",
                 ltx |-> consumed],
                [thrown |-> FALSE, res |-> TRUE, code |-> "txSUCCESS",
                 ltx |-> [consumed EXCEPT !.accounts[src].balance =
                             IF @ >= 5 THEN @ - 5 ELSE @]] })

\* FeeBumpMutableTransactionResult::updateResult: the code of the fee bump
\* follows the result of the inner transaction, whose result becomes the
\* inner result pair
updateResult(txResult, inner) ==
    [txResult EXCEPT
        !.code = IF inner.code = "txSUCCESS" THEN "txFEE_BUMP_INNER_SUCCESS"
                 ELSE "txFEE_BUMP_INNER_FAILED",
        !.inner.code = inner.code,
        !.innerPair = [code |-> inner.code,
                       feeCharged |-> txResult.inner.feeCharged]]

\* the second try block of apply turning what is thrown into a result code
applyInnerTx_CatchAsFailure(ltx, tx, txResult, inner) ==
    IF inner.thrown
    THEN [aborted |-> FALSE, ltx |-> ltx,
          txResult |-> [txResult EXCEPT !.code = "txINTERNAL_ERROR"],
          res |-> << FALSE >>]
    ELSE [aborted |-> FALSE, ltx |-> inner.ltx,
          txResult |-> updateResult(txResult, inner),
          res |-> << inner.res >>]

\* the second try block of apply: the inner transaction is applied in ltx,
\* the result is updated from it and apply returns what it returned; anything
\* thrown aborts the process
applyInnerTx(ltx, tx, txResult, inner) ==
    IF inner.thrown
    THEN [aborted |-> TRUE, ltx |-> ltx, txResult |-> txResult,
          res |-> << >>]
    ELSE [aborted |-> FALSE, ltx |-> inner.ltx,
          txResult |-> updateResult(txResult, inner),
          res |-> << inner.res >>]

BumpApplyInner ==
    /\ fbRun # << >>
    /\ fbRun.pc = "signerRemoved"
    /\ \E inner \in InnerApplies(fbLtx, fbTx) :
          LET r == applyInnerTx(fbLtx, fbTx, fbRun.txResult[1], inner)
          IN  /\ fbLtx' = r.ltx
              /\ fbRun' = [fbRun EXCEPT
                    !.pc = IF r.aborted THEN "aborted" ELSE "applied",
                    !.fault = IF inner.thrown THEN "inner" ELSE @,
                    !.inner = << inner >>,
                    !.res = r.res,
                    !.txResult = << r.txResult >>]
    /\ UNCHANGED << txSetVars, feeVars, invokeVars, utilVars, fbTx >>

\* the refundable fee the inner transaction may have left unused
UnusedRefundableFees == {0, 7}

\* mInnerTx->processRefund: a Soroban transaction's unused refundable fee goes
\* back from the fee pool to the fee source, and leaves the fee charged of the
\* inner result payload
processRefund(ltx, tx, feeSource, innerPayload, unused) ==
    IF ~isSoroban(tx) \/ unused = 0 \/ loadAccount(ltx, feeSource) = << >>
    THEN [refund |-> 0, ltx |-> ltx, inner |-> innerPayload]
    ELSE [refund |-> unused,
          ltx |-> [header |-> [ltx.header EXCEPT !.feePool = @ - unused],
                   accounts |-> [ltx.accounts EXCEPT ![feeSource].balance =
                                    addBalance(@, unused).balance]],
          inner |-> [innerPayload EXCEPT !.feeCharged = @ - unused]]

\* processPostApply taking the refund off the fee charged at any protocol
\* version and for any transaction
processPostApply_Always(ltx, tx, txResult, unused) ==
    LET r == processRefund(ltx, tx, getFeeSourceID(tx), txResult.inner,
                           unused)
    IN  [refund |-> r.refund, ltx |-> r.ltx,
         txResult |-> [txResult EXCEPT
             !.inner = r.inner,
             !.innerPair.feeCharged = r.inner.feeCharged,
             !.feeCharged = @ - r.refund]]

\* FeeBumpTransactionFrame::processPostApply: the refund, the view and the
\* result payload after it
processPostApply(ltx, tx, txResult, unused) ==
    LET r == processRefund(ltx, tx, getFeeSourceID(tx), txResult.inner,
                           unused)
        refunded == [txResult EXCEPT !.inner = r.inner]
    IN  [refund |-> r.refund, ltx |-> r.ltx,
         txResult |->
            IF ltx.header.ledgerVersion >= 21 /\ isSoroban(tx)
            THEN [refunded EXCEPT
                    !.innerPair.feeCharged = r.inner.feeCharged,
                    !.feeCharged = @ - r.refund]
            ELSE refunded]

BumpProcessPostApply ==
    /\ fbRun # << >>
    /\ fbRun.pc = "applied"
    /\ \E unused \in UnusedRefundableFees :
          LET r == processPostApply(fbLtx, fbTx, fbRun.txResult[1], unused)
          IN  /\ fbLtx' = r.ltx
              /\ fbRun' = [fbRun EXCEPT !.pc = "done",
                                        !.refund = << r.refund >>,
                                        !.beforePost = fbRun.txResult,
                                        !.txResult = << r.txResult >>]
    /\ UNCHANGED << txSetVars, feeVars, invokeVars, utilVars, fbTx >>

InitBump ==
    /\ fbTx \in BumpTxs
    /\ fbLtx \in BumpLedgers(fbTx)
    /\ fbRun = BumpSubmitted
    /\ TxSetOff
    /\ FeeOff
    /\ InvokeOff
    /\ UtilOff

NextBump ==
    \/ BumpCheckValid
    \/ BumpProcessFeeSeqNum
    \/ BumpRemoveSigner
    \/ BumpApplyInner
    \/ BumpProcessPostApply

SpecBump == InitBump /\ [][NextBump]_vars

\* --------------------------------------- trimming against a poorer ledger

\* the transactions trimmed: those of TxUniverse and a fee bump of a
\* transaction of A that B pays for
TrimUniverse ==
    TxUniverse \cup
    { [env |-> 7, feeBump |-> TRUE, src |-> "A", feeSrc |-> "B", seq |-> 1,
       fee |-> 100, innerOps |-> 1, soroban |-> FALSE, resourceFee |-> 0] }

\* the vectors of at most MaxTxs distinct transactions, in any order
TrimTxSeqs ==
    UNION { Enumerations(S) :
            S \in { X \in SUBSET TrimUniverse : Cardinality(X) <= MaxTxs } }

\* the accounts of last closed ledgers in which B cannot pay the fees of all
\* the transactions it pays for, or can
TrimLedgers ==
    { [a \in Accounts |->
         [seqNum |-> 0, balance |-> IF a = "A" THEN 500 ELSE bb,
          reserve |-> 20, sellingLiabilities |-> 0]] : bb \in {170, 400} }

TrimApps ==
    { [header |-> [ledgerVersion |-> v, baseFee |-> 50, maxTxSetSize |-> 102],
       lclHash |-> 0, accounts |-> l] :
        v \in LedgerVersions, l \in TrimLedgers }

InitTrim ==
    /\ mTransactions \in TrimTxSeqs
    /\ mHashIsValid = FALSE
    /\ mHash = 0
    /\ mPreviousLedgerHash = 0
    /\ app \in TrimApps
    /\ pc = "idle"
    /\ surge = NoSurge
    /\ last = [op |-> "construct", pre |-> << >>, ret |-> << >>, aux |-> << >>]
    /\ FeeOff
    /\ InvokeOff
    /\ BumpOff
    /\ UtilOff

NextTrim ==
    \/ GetContentsHash
    \/ TrimInvalid
    \/ CheckValid

SpecTrim == InitTrim /\ [][NextTrim]_vars

\* ------------------------------------- surge pricing over three accounts

\* three transactions of one operation each, from three accounts, bidding
\* 100, 200 and 300
SurgeBidTxs ==
    { [env |-> 31, feeBump |-> FALSE, src |-> "A", feeSrc |-> "A", seq |-> 1,
       fee |-> 100, innerOps |-> 1, soroban |-> FALSE, resourceFee |-> 0],
      [env |-> 32, feeBump |-> FALSE, src |-> "B", feeSrc |-> "B", seq |-> 1,
       fee |-> 200, innerOps |-> 1, soroban |-> FALSE, resourceFee |-> 0],
      [env |-> 33, feeBump |-> FALSE, src |-> "C", feeSrc |-> "C", seq |-> 1,
       fee |-> 300, innerOps |-> 1, soroban |-> FALSE, resourceFee |-> 0] }

\* last closed ledgers with a budget of 1, 2 or 3, measured in operations from
\* ledger version 11 on
SurgeBidApps ==
    { [header |-> [ledgerVersion |-> v, baseFee |-> 50, maxTxSetSize |-> m],
       lclHash |-> 0,
       accounts |-> [a \in Accounts |->
                        [seqNum |-> 0, balance |-> 500, reserve |-> 20,
                         sellingLiabilities |-> 0]]] :
        v \in LedgerVersions, m \in {1, 2, 3} }

InitSurgeBids ==
    /\ mTransactions \in Enumerations(SurgeBidTxs)
    /\ mHashIsValid = FALSE
    /\ mHash = 0
    /\ mPreviousLedgerHash = 0
    /\ app \in SurgeBidApps
    /\ pc = "idle"
    /\ surge = NoSurge
    /\ last = [op |-> "construct", pre |-> << >>, ret |-> << >>, aux |-> << >>]
    /\ FeeOff
    /\ InvokeOff
    /\ BumpOff
    /\ UtilOff

NextSurgeBids ==
    \/ SurgeBegin
    \/ SurgeStep
    \/ SurgeEnd
    \/ GetBaseFee

SpecSurgeBids == InitSurgeBids /\ [][NextSurgeBids]_vars

\* ------------------------------ what is thrown: fee bump apply and doApply

\* either a fee bump goes through validation and apply, or a contract
\* invocation runs
InitApply == InitBump \/ InitInvoke

NextApply == NextBump \/ NextInvoke

SpecApply == InitApply /\ [][NextApply]_vars

\* ------------------------------------------------------- main(): start-up

\* largest number of entries in a list of XDR file fingerprints
MaxXdrFiles == 2

\* a path is the sequence of its components; path::filename() is the last one
filename(path) == IF path = << >> THEN << >> ELSE << path[Len(path)] >>

SeqsUpTo(S, n) == UNION { [1 .. k -> S] : k \in 0 .. n }

\* XDR_FILES_SHA256: (path, hash) pairs generated at build time; the path of
\* an entry may be empty
CppXdrHashes ==
    SeqsUpTo([first : {<< >>, << "a.x" >>, << "xdr", "a.x" >>, << "b.x" >>},
              second : {1, 2}], MaxXdrFiles)

\* get_xdr_hashes().curr: the fingerprints compiled into the contract host
RustXdrHashes ==
    SeqsUpTo([file : {<< "a.x" >>, << "rs", "a.x" >>, << "b.x" >>},
              hash : {1, 2}], MaxXdrFiles)

CURRENT_LEDGER_PROTOCOL_VERSION == 21

\* getStellarCoreMajorReleaseVersion(STELLAR_CORE_VERSION): nothing for a
\* version string that is not a release tag
MajorReleaseVersions == {<< >>, << 20 >>, << 21 >>}

\* checkStellarCoreMajorVersionProtocolIdentity in a build without the next
\* protocol: whether it returns
checkStellarCoreMajorVersionProtocolIdentity(release) ==
    release = << >> \/ release[1] = CURRENT_LEDGER_PROTOCOL_VERSION

\* the loop of checkXDRFileIdentity from the i-th C++ entry on: the error it
\* throws, "none" when it runs to its end
RECURSIVE checkXDREntries(_, _, _)
checkXDREntries(cpp, rust, i) ==
    IF i > Len(cpp) THEN "none"
    ELSE IF cpp[i].first = << >> THEN checkXDREntries(cpp, rust, i + 1)
    ELSE LET same == { j \in 1 .. Len(rust) :
                         filename(rust[j].file) = filename(cpp[i].first) }
         IN IF same = {} THEN "XDR hash missing"
            ELSE LET j == CHOOSE k \in same : \A l \in same : k <= l
                 IN IF rust[j].hash = cpp[i].second
                    THEN checkXDREntries(cpp, rust, i + 1)
                    ELSE "XDR hash mismatch"

\* checkXDRFileIdentity without the comparison of the two sizes
checkXDRFileIdentity_NoCount(cpp, rust) == checkXDREntries(cpp, rust, 1)

\* checkXDRFileIdentity: the error it throws, "none" when it returns
checkXDRFileIdentity(cpp, rust) ==
    LET e == checkXDREntries(cpp, rust, 1)
    IN IF e # "none" THEN e
       ELSE IF Len(cpp) # Len(rust) THEN "Number of xdr hashes don't match"
       ELSE "none"

\* main up to sodium_init: return 1 when the crypto library does not start
MainInit ==
    /\ mainRun # << >>
    /\ mainRun.pc = "start"
    /\ \E sodium \in {0, -1} :
          mainRun' = IF sodium # 0
                     THEN [mainRun EXCEPT !.pc = "returned", !.res = << 1 >>]
                     ELSE [mainRun EXCEPT !.pc = "initialized"]
    /\ UNCHANGED << txSetVars, feeVars, invokeVars, bumpVars, cmpRun, utilRun,
                    acctQueue, metaRun, prevHashRef >>

\* main: checkStellarCoreMajorVersionProtocolIdentity; what it throws reaches
\* std::terminate, set to printBacktraceAndAbort
MainCheckVersion ==
    /\ mainRun # << >>
    /\ mainRun.pc = "initialized"
    /\ mainRun' =
          IF checkStellarCoreMajorVersionProtocolIdentity(mainRun.release)
          THEN [mainRun EXCEPT !.pc = "versionChecked"]
          ELSE [mainRun EXCEPT !.pc = "aborted", !.error = "version"]
    /\ UNCHANGED << txSetVars, feeVars, invokeVars, bumpVars, cmpRun, utilRun,
                    acctQueue, metaRun, prevHashRef >>

\* main: checkXDRFileIdentity
MainCheckXDR ==
    /\ mainRun # << >>
    /\ mainRun.pc = "versionChecked"
    /\ LET e == checkXDRFileIdentity(mainRun.cpp, mainRun.rust)
       IN mainRun' = IF e = "none"
                     THEN [mainRun EXCEPT !.pc = "xdrChecked"]
                     ELSE [mainRun EXCEPT !.pc = "aborted", !.error = e]
    /\ UNCHANGED << txSetVars, feeVars, invokeVars, bumpVars, cmpRun, utilRun,
                    acctQueue, metaRun, prevHashRef >>

\* main: handleCommandLine runs the command and main returns its result
MainHandleCommandLine ==
    /\ mainRun # << >>
    /\ mainRun.pc = "xdrChecked"
    /\ \E res \in {0, 1} :
          mainRun' = [mainRun EXCEPT !.pc = "returned", !.res = << res >>,
                                     !.commands = @ + 1]
    /\ UNCHANGED << txSetVars, feeVars, invokeVars, bumpVars, cmpRun, utilRun,
                    acctQueue, metaRun, prevHashRef >>

InitMain ==
    /\ \E cpp \in CppXdrHashes, rust \in RustXdrHashes,
          release \in MajorReleaseVersions :
          mainRun = [pc |-> "start", cpp |-> cpp, rust |-> rust,
                     release |-> release, error |-> "none", res |-> << >>,
                     commands |-> 0]
    /\ cmpRun = << >>
    /\ utilRun = << >>
    /\ acctQueue = << >>
    /\ metaRun = << >>
    /\ prevHashRef = NoRef
    /\ TxSetOff
    /\ FeeOff
    /\ InvokeOff
    /\ BumpOff

NextMain ==
    \/ MainInit
    \/ MainCheckVersion
    \/ MainCheckXDR
    \/ MainHandleCommandLine

SpecMain == InitMain /\ [][NextMain]_vars

\* ------------------- FeeBumpTransactionFrame: every way of being invalid

\* fee bumps of A's transaction paid by B: fees below zero, below the
\* minimum, below and above the inner rate; inner fees below zero and below
\* the Soroban resource fee; signed with too little weight or enough
ValidityTxs ==
    { [env |-> 40, feeBump |-> TRUE, src |-> "A", feeSrc |-> "B", seq |-> 1,
       fee |-> f, innerOps |-> 1, soroban |-> s,
       resourceFee |-> IF s THEN 40 ELSE 0, innerFee |-> i, signed |-> g] :
        f \in {-1, 15, 100, 200}, i \in {-1, 30, 80}, s \in BOOLEAN,
        g \in BOOLEAN }

\* the views they are validated in: before and after version 13, the fee
\* source absent, poor or rich
ValidityLedgers ==
    { [header |-> [ledgerVersion |-> v, baseFee |-> 10, baseReserve |-> 20,
                   feePool |-> 0],
       accounts |-> acc] :
        v \in {12, 20},
        acc \in { [a \in {"A", "B"} |->
                      [balance |-> IF a = "A" THEN 400 ELSE bb,
                       seqNum |-> 0, reserve |-> 20,
                       sellingLiabilities |-> 0,
                       signers |-> {OtherSignerKey}]] : bb \in {30, 150, 400} }
              \cup { [a \in {"A"} |-> [balance |-> 400, seqNum |-> 0,
                                        reserve |-> 20,
                                        sellingLiabilities |-> 0,
                                        signers |-> {}]] } }

\* what a transaction applied earlier in the same ledger leaves the fee
\* source with
EarlierBalances == {25, 40, 60}

\* between validation and fee collection the fee source's balance falls
BumpEarlierApply ==
    /\ fbRun # << >>
    /\ fbRun.pc = "valid"
    /\ fbRun.earlier = << >>
    /\ \E b \in EarlierBalances :
          /\ b < fbLtx.accounts[getFeeSourceID(fbTx)].balance
          /\ fbLtx' = [fbLtx EXCEPT
                          !.accounts[getFeeSourceID(fbTx)].balance = b]
          /\ fbRun' = [fbRun EXCEPT !.earlier = << b >>]
    /\ UNCHANGED << txSetVars, feeVars, invokeVars, utilVars, fbTx >>

\* commonValid in applying mode, after the fee was collected
BumpCommonValidApplying ==
    /\ fbRun # << >>
    /\ fbRun.pc = "charged"
    /\ fbRun' = [fbRun EXCEPT !.pc = "revalidated",
                              !.cv = << commonValid(fbTx, fbLtx, TRUE) >>]
    /\ UNCHANGED << txSetVars, feeVars, invokeVars, utilVars, fbTx, fbLtx >>

InitBumpValid ==
    /\ fbTx \in ValidityTxs
    /\ fbLtx \in ValidityLedgers
    /\ fbRun = BumpSubmitted
    /\ TxSetOff
    /\ FeeOff
    /\ InvokeOff
    /\ UtilOff

NextBumpValid ==
    \/ BumpCheckValid
    \/ BumpEarlierApply
    \/ BumpProcessFeeSeqNum
    \/ BumpCommonValidApplying

SpecBumpValid == InitBumpValid /\ [][NextBumpValid]_vars

\* ------------------------------------------- SurgeCompare as an ordering

\* the transactions at the head of the queues compared: bids of 0, equal
\* bids, equal rates with different bids, different rates
CompareTxs ==
    { [env |-> e[1], feeBump |-> FALSE, src |-> "A", feeSrc |-> "A",
       seq |-> 1, fee |-> e[2], innerOps |-> e[3], soroban |-> FALSE,
       resourceFee |-> 0] :
        e \in {<< 1, 0, 1 >>, << 2, 10, 1 >>, << 3, 20, 2 >>, << 4, 20, 1 >>,
               << 5, 10, 2 >>} }

\* a pointer to a queue: null, or the queue it points to
NullPtr == [null |-> TRUE, queue |-> << >>]

PtrTo(q) == [null |-> FALSE, queue |-> q]

\* what SurgeCompare is handed: a null pointer, or a pointer to a queue that
\* is empty or holds one or two transactions
ComparePtrs ==
    {NullPtr, PtrTo(<< >>)}
        \cup { PtrTo(<< t >>) : t \in CompareTxs }
        \cup { PtrTo(<< t, u >>) :
                 t \in {CHOOSE x \in CompareTxs : x.env = 2},
                 u \in {CHOOSE x \in CompareTxs : x.env = 4} }

\* the queue a pointer is tested as: a null pointer and a pointer to an empty
\* queue take the same branch
queueOf(p) == IF p.null THEN << >> ELSE p.queue

\* the headers compared under, one of them with a base fee of 0
CompareHeaders ==
    { [ledgerVersion |-> 20, baseFee |-> b, maxTxSetSize |-> 3] :
        b \in {0, 10} }

\* the comparator is applied to every pair of three pointers
CompareAll ==
    /\ cmpRun # << >>
    /\ cmpRun.lt = << >>
    /\ cmpRun' = [cmpRun EXCEPT !.lt =
          << [i \in 1 .. 3 |-> [j \in 1 .. 3 |->
                 SurgeCompare(cmpRun.mSeed, cmpRun.mHeader,
                              queueOf(cmpRun.ptrs[i]),
                              queueOf(cmpRun.ptrs[j]))]] >>]
    /\ UNCHANGED << txSetVars, feeVars, invokeVars, bumpVars, mainRun,
                    utilRun, acctQueue, metaRun, prevHashRef >>

InitCompare ==
    /\ \E s \in Seeds, h \in CompareHeaders,
          p \in [1 .. 3 -> ComparePtrs] :
          cmpRun = [mSeed |-> s, mHeader |-> h, ptrs |-> p, lt |-> << >>]
    /\ mainRun = << >>
    /\ utilRun = << >>
    /\ acctQueue = << >>
    /\ metaRun = << >>
    /\ prevHashRef = NoRef
    /\ TxSetOff
    /\ FeeOff
    /\ InvokeOff
    /\ BumpOff

NextCompare == CompareAll

SpecCompare == InitCompare /\ [][NextCompare]_vars

\* ------------------------- previousLedgerHash(): the reference it returns

\* Hash& previousLedgerHash(): the cache is invalidated when the reference is
\* handed out
PreviousLedgerHash ==
    /\ pc = "idle"
    /\ mHashIsValid' = FALSE
    /\ prevHashRef' = [prevHashRef EXCEPT !.held = TRUE]
    /\ last' = [op |-> "previousLedgerHash", pre |-> mTransactions,
                ret |-> mPreviousLedgerHash, aux |-> << >>]
    /\ UNCHANGED << feeVars, invokeVars, bumpVars, mainRun, cmpRun, utilRun,
                    acctQueue, metaRun, mTransactions, mHash,
                    mPreviousLedgerHash, app, pc, surge >>

\* the caller assigns through the reference it holds: mPreviousLedgerHash
\* changes and no member function runs; missed records a write made while
\* the cache was marked valid
WriteThroughRef ==
    /\ pc = "idle"
    /\ prevHashRef.held
    /\ \E h \in {0, 1} :
          /\ mPreviousLedgerHash' = h
          /\ last' = [op |-> "write", pre |-> mTransactions, ret |-> h,
                      aux |-> << >>]
          /\ prevHashRef' = [prevHashRef EXCEPT
                                !.missed = @ \/ (mHashIsValid
                                                 /\ h # mPreviousLedgerHash)]
    /\ UNCHANGED << feeVars, invokeVars, bumpVars, mainRun, cmpRun, utilRun,
                    acctQueue, metaRun, mTransactions, mHashIsValid, mHash,
                    app, pc, surge >>

\* largest number of transactions in a set whose reference is handed out
MaxRefTxs == 2

InitHashRef ==
    /\ mTransactions \in TxSeqs(MaxRefTxs)
    /\ mHashIsValid = FALSE
    /\ mHash = 0
    /\ mPreviousLedgerHash \in {0, 1}
    /\ app \in Apps
    /\ pc = "idle"
    /\ surge = NoSurge
    /\ last = [op |-> "construct", pre |-> << >>, ret |-> << >>, aux |-> << >>]
    /\ FeeOff
    /\ InvokeOff
    /\ BumpOff
    /\ UtilOff

NextHashRef ==
    \/ GetContentsHash
    \/ SortForHash
    \/ RemoveTx
    \/ TrimInvalid
    \/ SurgeBegin
    \/ SurgeStep
    \/ SurgeEnd
    \/ PreviousLedgerHash
    \/ WriteThroughRef

SpecHashRef == InitHashRef /\ [][NextHashRef]_vars

\* ------------------------------------ surgePricingFilter run to its end

NextSurge ==
    \/ SurgeBegin
    \/ SurgeStep
    \/ SurgeEnd

\* a call of surgePricingFilter runs on: nothing but its own loop and return
\* can be taken while it is under way
SpecSurge ==
    /\ Init
    /\ [][NextSurge]_vars
    /\ WF_vars(SurgeStep)
    /\ WF_vars(SurgeEnd)

\* -------------------------------------------------- TxSetUtils::trimInvalid

\* largest number of transactions handed to TxSetUtils::trimInvalid
MaxUtilTxs == 3

\* the transactions handed to it; minLedger is ledgerBounds.minLedger.  Their
\* full hashes differ
UtilTxs ==
    { [env |-> e[1], feeBump |-> FALSE, src |-> e[2], feeSrc |-> e[2],
       seq |-> e[3], fee |-> e[4], innerOps |-> 1, soroban |-> FALSE,
       resourceFee |-> 0, minLedger |-> e[5]] :
        e \in {<< 1, "A", 1, 100, 0 >>, << 2, "A", 2, 100, 0 >>,
               << 3, "B", 1, 100, 6 >>, << 4, "B", 1, 10, 0 >>,
               << 5, "C", 1, 300, 7 >>} }

\* the root ledger state: the stored header of the last closed ledger, 5, and
\* the accounts
UtilRoots ==
    { [header |-> [ledgerSeq |-> 5, ledgerVersion |-> 20, baseFee |-> 50,
                   maxTxSetSize |-> 102],
       accounts |-> [a \in Accounts |->
                        [seqNum |-> IF a = "A" THEN sa ELSE 0,
                         balance |-> IF a = "B" THEN bb ELSE 500,
                         reserve |-> 20, sellingLiabilities |-> 0]]] :
        sa \in {0, 1}, bb \in {60, 500} }

\* app.getLedgerManager().getLastClosedLedgerNum()
getLastClosedLedgerNum(root) == root.header.ledgerSeq

\* tx->checkValid(app, ltx, 0, ...): the checks against the accounts, and the
\* ledger bounds against the ledgerSeq of the view
UtilCheckValid(tx, ltx) ==
    /\ TxCheckValid(tx, ltx, 0)
    /\ ltx.header.ledgerSeq >= tx.minLedger

\* removeTxs: the transactions whose full hash is not one of txsToRemove's
removeTxs(txs, txsToRemove) ==
    LET txsToRemoveSet == { getFullHash(t) : t \in Range(txsToRemove) }
    IN  SelectSeq(txs, LAMBDA t : getFullHash(t) \notin txsToRemoveSet)

\* getInvalidTxList validating against the stored header, at the ledgerSeq of
\* the last closed ledger
getInvalidTxList_AtLastClosed(txs, root) ==
    SelectSeq(txs, LAMBDA t : ~UtilCheckValid(t, root))

\* getInvalidTxList: a view over the root with ledgerSeq set to the next
\* ledger's; the view is dropped on return
getInvalidTxList(txs, root) ==
    LET ltx == [root EXCEPT
                   !.header.ledgerSeq = getLastClosedLedgerNum(root) + 1]
    IN  SelectSeq(txs, LAMBDA t : ~UtilCheckValid(t, ltx))

\* TxSetUtils::trimInvalid: invalidTxs and the list returned
UtilTrimInvalid ==
    /\ utilRun # << >>
    /\ utilRun.pc = "called"
    /\ LET invalidTxs == getInvalidTxList(utilRun.txs, utilRun.root)
       IN  utilRun' = [utilRun EXCEPT
                          !.pc = "returned",
                          !.invalidTxs = invalidTxs,
                          !.ret = removeTxs(utilRun.txs, invalidTxs)]
    /\ UNCHANGED << txSetVars, feeVars, invokeVars, bumpVars, mainRun, cmpRun,
                    acctQueue, metaRun, prevHashRef >>

InitUtil ==
    /\ \E txs \in SeqsUpTo(UtilTxs, MaxUtilTxs), root \in UtilRoots :
          utilRun = [pc |-> "called", txs |-> txs, root |-> root,
                     rootAtCall |-> root, invalidTxs |-> << >>,
                     ret |-> << >>]
    /\ mainRun = << >>
    /\ cmpRun = << >>
    /\ acctQueue = << >>
    /\ metaRun = << >>
    /\ prevHashRef = NoRef
    /\ TxSetOff
    /\ FeeOff
    /\ InvokeOff
    /\ BumpOff

NextUtil == UtilTrimInvalid

SpecUtil == InitUtil /\ [][NextUtil]_vars

\* -------------------------------------------------- AccountTransactionQueue

\* largest number of transactions a queue is built from
MaxQueueTxs == 3

\* transactions of account A; 2 and 4 carry the same sequence number, 4 being
\* a fee bump of 2 operations
QueueTxs ==
    { [env |-> e[1], feeBump |-> e[2], src |-> "A", feeSrc |-> e[3],
       seq |-> e[4], fee |-> 300, innerOps |-> e[5], soroban |-> FALSE,
       resourceFee |-> 0] :
        e \in {<< 1, FALSE, "A", 1, 1 >>, << 2, FALSE, "A", 2, 2 >>,
               << 3, FALSE, "A", 3, 1 >>, << 4, TRUE, "B", 2, 1 >>} }

\* the vectors a queue is built from: distinct transactions in any order
QueueInputs ==
    UNION { Enumerations(S) :
              S \in { T \in SUBSET QueueTxs : Cardinality(T) <= MaxQueueTxs } }

\* the constructor: the queues it can leave (std::sort by sequence number may
\* leave equal ones in either order); releaseAssert(!mTxs.empty()) trips on
\* an empty vector
AccountTransactionQueue(accountTxs) ==
    IF accountTxs = << >> THEN { [asserted |-> TRUE, mTxs |-> << >>,
                                  mNumOperations |-> 0] }
    ELSE { [asserted |-> FALSE, mTxs |-> s,
            mNumOperations |-> sizeOp(accountTxs)] :
             s \in SortedArrangements(Range(accountTxs), SeqSorter) }

\* getTopTx: the front, unless the assertion trips
getTopTx(q) ==
    IF q.mTxs = << >> THEN [asserted |-> TRUE, top |-> << >>]
    ELSE [asserted |-> FALSE, top |-> << Head(q.mTxs) >>]

\* popTopTx popping the front and leaving the counter as it is
popTopTx_NoCount(q) ==
    IF q.mTxs = << >> THEN [q EXCEPT !.asserted = TRUE]
    ELSE [q EXCEPT !.mTxs = Tail(@)]

\* popTopTx: the counter loses the front's operations, the queue its front
popTopTx(q) ==
    IF q.mTxs = << >> THEN [q EXCEPT !.asserted = TRUE]
    ELSE [q EXCEPT !.mNumOperations = @ - getNumOperations(Head(q.mTxs)),
                   !.mTxs = Tail(@)]

QueueConstruct ==
    /\ acctQueue # << >>
    /\ acctQueue.pc = "new"
    /\ \E q \in AccountTransactionQueue(acctQueue.accountTxs) :
          acctQueue' = [acctQueue EXCEPT
                           !.pc = IF q.asserted THEN "aborted" ELSE "live",
                           !.op = "construct",
                           !.mTxs = q.mTxs,
                           !.mNumOperations = q.mNumOperations]
    /\ UNCHANGED << txSetVars, feeVars, invokeVars, bumpVars, mainRun, cmpRun,
                    utilRun, metaRun, prevHashRef >>

QueueGetTopTx ==
    /\ acctQueue # << >>
    /\ acctQueue.pc = "live"
    /\ LET r == getTopTx(acctQueue)
       IN  acctQueue' = [acctQueue EXCEPT
                            !.pc = IF r.asserted THEN "aborted" ELSE "live",
                            !.op = "getTopTx",
                            !.top = r.top]
    /\ UNCHANGED << txSetVars, feeVars, invokeVars, bumpVars, mainRun, cmpRun,
                    utilRun, metaRun, prevHashRef >>

QueuePopTopTx ==
    /\ acctQueue # << >>
    /\ acctQueue.pc = "live"
    /\ LET q == popTopTx([asserted |-> FALSE, mTxs |-> acctQueue.mTxs,
                          mNumOperations |-> acctQueue.mNumOperations])
       IN  acctQueue' = [acctQueue EXCEPT
                            !.pc = IF q.asserted THEN "aborted" ELSE "live",
                            !.op = "popTopTx",
                            !.popped = IF q.asserted THEN @ ELSE @ + 1,
                            !.mTxs = q.mTxs,
                            !.mNumOperations = q.mNumOperations]
    /\ UNCHANGED << txSetVars, feeVars, invokeVars, bumpVars, mainRun, cmpRun,
                    utilRun, metaRun, prevHashRef >>

InitQueue ==
    /\ \E accountTxs \in QueueInputs :
          acctQueue = [pc |-> "new", op |-> "none",
                       accountTxs |-> accountTxs, mTxs |-> << >>,
                       mNumOperations |-> 0, top |-> << >>, popped |-> 0]
    /\ mainRun = << >>
    /\ cmpRun = << >>
    /\ utilRun = << >>
    /\ metaRun = << >>
    /\ prevHashRef = NoRef
    /\ TxSetOff
    /\ FeeOff
    /\ InvokeOff
    /\ BumpOff

NextQueue ==
    \/ QueueConstruct
    \/ QueueGetTopTx
    \/ QueuePopTopTx

SpecQueue == InitQueue /\ [][NextQueue]_vars

\* ------------------------------------------------ debug meta segmentation

\* ledgers of one debug meta segment
META_DEBUG_LEDGER_SEGMENT_SIZE == 256

\* longest run of consecutive ledgers closed
MaxRunLedgers == 258

\* ledgers a run starts at: around 0, around one segment and around two
MetaStarts == {0, 1, 2, 254, 255, 256, 257, 509, 510, 511, 512}

isDebugSegmentBoundary(ledgerSeq) ==
    IF META_DEBUG_LEDGER_SEGMENT_SIZE = 1 THEN TRUE
    ELSE ledgerSeq % (META_DEBUG_LEDGER_SEGMENT_SIZE - 1) = 0

getNumberOfDebugFilesToKeep(numLedgers) ==
    LET segLen == META_DEBUG_LEDGER_SEGMENT_SIZE
    IN  (numLedgers + segLen - 1) \div segLen

\* the next ledger of the run closes; a boundary starts a new segment
MetaCloseLedger ==
    /\ metaRun # << >>
    /\ metaRun.numLedgers < MaxRunLedgers
    /\ LET ledgerSeq == metaRun.first + metaRun.numLedgers
           cut == isDebugSegmentBoundary(ledgerSeq)
       IN  metaRun' = [metaRun EXCEPT
                          !.numLedgers = @ + 1,
                          !.lastSeq = ledgerSeq,
                          !.lastCut = cut,
                          !.boundaries = IF cut THEN @ + 1 ELSE @,
                          !.keepKnown = FALSE,
                          !.keep = 0]
    /\ UNCHANGED << txSetVars, feeVars, invokeVars, bumpVars, mainRun, cmpRun,
                    utilRun, acctQueue, prevHashRef >>

\* the number of files to keep for the ledgers closed so far is worked out
MetaFilesToKeep ==
    /\ metaRun # << >>
    /\ ~metaRun.keepKnown
    /\ metaRun' = [metaRun EXCEPT
                      !.keepKnown = TRUE,
                      !.keep = getNumberOfDebugFilesToKeep(metaRun.numLedgers)]
    /\ UNCHANGED << txSetVars, feeVars, invokeVars, bumpVars, mainRun, cmpRun,
                    utilRun, acctQueue, prevHashRef >>

InitMeta ==
    /\ \E first \in MetaStarts :
          metaRun = [first |-> first, numLedgers |-> 0, lastSeq |-> 0,
                     lastCut |-> FALSE, boundaries |-> 0,
                     keepKnown |-> FALSE, keep |-> 0]
    /\ mainRun = << >>
    /\ cmpRun = << >>
    /\ utilRun = << >>
    /\ acctQueue = << >>
    /\ prevHashRef = NoRef
    /\ TxSetOff
    /\ FeeOff
    /\ InvokeOff
    /\ BumpOff

NextMeta ==
    \/ MetaCloseLedger
    \/ MetaFilesToKeep

SpecMeta == InitMeta /\ [][NextMeta]_vars

\* ---------------------------------------------------------------- claims

\* the transactions S in ascending full-hash order
CanonicalOrder(S) ==
    CHOOSE s \in Enumerations(S) :
        \A i, j \in 1 .. Len(s) : i < j => getFullHash(s[i]) < getFullHash(s[j])

\* SHA256(previousLedgerHash, envelopes in ascending full-hash order)
CanonicalHash(prev, S) == sha256(<< prev >> \o Envelopes(CanonicalOrder(S)))

\* the number of transactions of the same source account before position p
BatchIndex(l, p) ==
    Cardinality({ q \in 1 .. (p - 1) : getSourceID(l[q]) = getSourceID(l[p]) })

SameSeqInAccount(S) ==
    \E t, u \in S : /\ t # u
                    /\ getSourceID(t) = getSourceID(u)
                    /\ getSeqNum(t) = getSeqNum(u)

\* C1: in the list returned by sortForApply, of two transactions of the same
\* source account with different sequence numbers the one with the lower
\* sequence number comes first.
C1_SeqOrderWithinAccount ==
    last.op = "sortForApply" =>
        \A i, j \in 1 .. Len(last.ret) :
            ( /\ getSourceID(last.ret[i]) = getSourceID(last.ret[j])
              /\ getSeqNum(last.ret[i]) < getSeqNum(last.ret[j]) ) => i < j

\* sortForApply ran on a vector that held a higher sequence number of an
\* account before a lower one
C1_Witness ==
    /\ last.op = "sortForApply"
    /\ \E i, j \in 1 .. Len(last.pre) :
          /\ i < j
          /\ getSourceID(last.pre[i]) = getSourceID(last.pre[j])
          /\ getSeqNum(last.pre[i]) > getSeqNum(last.pre[j])

\* C2: sortForApply returns every transaction of the set exactly once, as the
\* concatenation of batches 0, 1, 2, ...: the i-th transaction of an account
\* (in ascending sequence-number order) is in batch i, all of batch i comes
\* before all of batch i+1, and inside a batch the transactions ascend by
\* (full hash XOR contents hash of the set).
C2_BatchesInXorOrder ==
    last.op = "sortForApply" =>
        LET l == last.ret
            h == CanonicalHash(mPreviousLedgerHash, Range(last.pre))
        IN  /\ Len(l) = Len(last.pre)
            /\ Range(l) = Range(last.pre)
            /\ \A p, q \in 1 .. Len(l) :
                  p < q =>
                    /\ BatchIndex(l, p) <= BatchIndex(l, q)
                    /\ getSourceID(l[p]) = getSourceID(l[q])
                          => getSeqNum(l[p]) <= getSeqNum(l[q])
                    /\ BatchIndex(l, p) = BatchIndex(l, q)
                          => XorBits(getFullHash(l[p]), h, HashBits)
                               < XorBits(getFullHash(l[q]), h, HashBits)

\* sortForApply returned two batches, the first of two transactions whose
\* order by XOR with the set hash is not their order by full hash
C2_Witness ==
    /\ last.op = "sortForApply"
    /\ Len(last.ret) = 3
    /\ BatchIndex(last.ret, 2) = 0
    /\ BatchIndex(last.ret, 3) = 1
    /\ getFullHash(last.ret[1]) > getFullHash(last.ret[2])

\* every list sortForApply can return for a frame holding the transactions of
\* last.pre, in any vector order, is the list returned
SameApplyOrderForEveryInsertionOrder ==
    \A p \in Enumerations(Range(last.pre)) :
        \A o \in sortForApply(p, FALSE, 0, mPreviousLedgerHash) :
            o.retList = last.ret

\* C3 as stated: two TxSetFrames with the same previousLedgerHash and the same
\* transactions in different insertion orders return identical lists from
\* sortForApply.
C3_Original ==
    last.op = "sortForApply" => SameApplyOrderForEveryInsertionOrder

\* C3 amended: the same, for sets in which no two transactions of one source
\* account share a sequence number.
C3_PureFunctionOfSet ==
    ( /\ last.op = "sortForApply"
      /\ ~SameSeqInAccount(Range(last.pre)) )
        => SameApplyOrderForEveryInsertionOrder

\* sortForApply ran on a set of three transactions, two of one account, with
\* distinct sequence numbers, whose vector was not in the order returned
C3_Witness ==
    /\ last.op = "sortForApply"
    /\ ~SameSeqInAccount(Range(last.pre))
    /\ Len(last.pre) = 3
    /\ \E i, j \in 1 .. 3 :
          i # j /\ getSourceID(last.pre[i]) = getSourceID(last.pre[j])
    /\ last.ret # last.pre

\* C4: getContentsHash returns the hash of previousLedgerHash followed by the
\* envelopes in ascending full-hash order, whatever the order of mTransactions
\* (so it depends only on previousLedgerHash and the set of envelopes).
C4_ContentsHashCanonical ==
    last.op = "getContentsHash" =>
        /\ last.ret = CanonicalHash(mPreviousLedgerHash, Range(last.pre))
        /\ mHash = last.ret
        /\ mTransactions = CanonicalOrder(Range(last.pre))

\* getContentsHash ran on a vector that was not in hash order and whose hash
\* in vector order is another one
C4_Witness ==
    /\ last.op = "getContentsHash"
    /\ ~IsSortedForHash(last.pre)
    /\ HashOf(mPreviousLedgerHash, last.pre) # last.ret

\* the operations of the transactions S, and the size the ledger version
\* measures a set by
RECURSIVE TotalOps(_)
TotalOps(S) ==
    IF S = {} THEN 0
    ELSE LET t == CHOOSE x \in S : TRUE
         IN  getNumOperations(t) + TotalOps(S \ {t})

MeasuredSize(S, lh) ==
    IF lh.ledgerVersion >= 11 THEN TotalOps(S) ELSE Cardinality(S)

\* the sequence number checkValid is given as current for t within S: that of
\* the transaction before it in its account's queue, 0 for the first
PrevSeq(t, S) ==
    LET before == { u \in S \ {t} : /\ getSourceID(u) = getSourceID(t)
                                    /\ getSeqNum(u) <= getSeqNum(t) }
    IN  IF before = {} THEN 0
        ELSE CHOOSE n \in { getSeqNum(u) : u \in before } :
                 \A u \in before : getSeqNum(u) <= n

RECURSIVE FeeSum(_)
FeeSum(S) ==
    IF S = {} THEN 0
    ELSE LET t == CHOOSE x \in S : TRUE
         IN  getFeeBid(t) + FeeSum(S \ {t})

EveryTxValid(S) == \A t \in S : TxCheckValid(t, app, PrevSeq(t, S))

EveryFeeSourceCanPay(S) ==
    \A f \in Accounts :
        FeeSum({ t \in S : getFeeSourceID(t) = f })
            <= getAvailableBalance(app.header, app.accounts[f])

\* C5 as stated: checkValid returns true iff previousLedgerHash is the
\* last-closed-ledger hash, the total number of operations is at most
\* header.maxTxSetSize, mTransactions is sorted ascending by full hash, every
\* transaction passes its own checkValid and every fee source can pay the sum
\* of the fees of its transactions.
C5_Original ==
    last.op = "checkValid" =>
        ( last.ret <=>
            /\ mPreviousLedgerHash = app.lclHash
            /\ TotalOps(Range(last.pre)) <= app.header.maxTxSetSize
            /\ IsSortedForHash(last.pre)
            /\ EveryTxValid(Range(last.pre))
            /\ EveryFeeSourceCanPay(Range(last.pre)) )

\* C5 amended: the same, with the size of the set measured in operations for
\* ledger versions >= 11 and in transactions for earlier ones.
C5_CheckValidIff ==
    last.op = "checkValid" =>
        ( last.ret <=>
            /\ mPreviousLedgerHash = app.lclHash
            /\ MeasuredSize(Range(last.pre), app.header)
                   <= app.header.maxTxSetSize
            /\ IsSortedForHash(last.pre)
            /\ EveryTxValid(Range(last.pre))
            /\ EveryFeeSourceCanPay(Range(last.pre)) )

\* checkValid accepted a set holding a chain of two transactions of one account
C5_Witness ==
    /\ last.op = "checkValid"
    /\ last.ret
    /\ \E t, u \in Range(last.pre) :
          getSourceID(t) = getSourceID(u) /\ getSeqNum(t) < getSeqNum(u)

\* the size surgePricingFilter measures against the budget
SurgeSize(S, lh) ==
    IF lh.ledgerVersion >= 11 THEN TotalOps(S)
    ELSE Cardinality(S) * MAX_OPS_PER_TX

\* C6: after surgePricingFilter the size of the set measured against the
\* budget is at most getLastMaxTxSetSizeOps, and every retained transaction
\* was in the set before, once.
C6_WithinBudget ==
    last.op = "surgePricingFilter" =>
        /\ SurgeSize(Range(mTransactions), app.header)
               <= getLastMaxTxSetSizeOps(app)
        /\ mTransactions = last.ret
        /\ Range(last.ret) \subseteq Range(last.pre)
        /\ Cardinality(Range(last.ret)) = Len(last.ret)

\* surge pricing dropped some transactions and kept others
C6_Witness ==
    /\ last.op = "surgePricingFilter"
    /\ last.aux.surged
    /\ last.ret # << >>
    /\ Len(last.ret) < Len(last.pre)
    /\ last.aux.didNotFit # {}

\* C7: after surgePricingFilter the retained transactions of every source
\* account are a prefix of its sequence-number-sorted queue, and once a head
\* did not fit neither it nor a later transaction of its account is retained.
C7_PrefixPerAccount ==
    last.op = "surgePricingFilter" =>
        /\ \A a \in Accounts :
              \E q \in SortedArrangements(TxsOf(last.pre, a), SeqSorter) :
                  \E k \in 0 .. Len(q) :
                      TxsOf(last.ret, a) = { q[i] : i \in 1 .. k }
        /\ \A t, u \in Range(last.pre) :
              ( /\ u \in Range(last.ret)
                /\ getSourceID(t) = getSourceID(u)
                /\ getSeqNum(t) < getSeqNum(u) ) => t \in Range(last.ret)
        /\ \A d \in last.aux.didNotFit :
              /\ d \notin Range(last.ret)
              /\ \A t \in Range(last.pre) :
                    ( /\ getSourceID(t) = getSourceID(d)
                      /\ getSeqNum(t) > getSeqNum(d) ) => t \notin Range(last.ret)

\* a head did not fit while a later, smaller transaction of its account would
\* have fitted in what the filter left unused
C7_Witness ==
    /\ last.op = "surgePricingFilter"
    /\ \E d \in last.aux.didNotFit :
          \E t \in Range(last.pre) :
              /\ getSourceID(t) = getSourceID(d)
              /\ getSeqNum(t) > getSeqNum(d)
              /\ SurgeSize(Range(last.ret) \cup {t}, app.header)
                     <= getLastMaxTxSetSizeOps(app)

\* the fee rate feeBid/minFee of h is at most that of t
RateAtMost(h, t) ==
    getFeeBid(h) * getMinFee(t, app.header)
        <= getFeeBid(t) * getMinFee(h, app.header)

\* C8: at every step of surgePricingFilter the transaction examined is a queue
\* head whose fee rate is the greatest among the current queue heads, a tie
\* going to the greater hash XOR seed.
C8_ExaminesBestRate ==
    (pc = "surge" /\ surge.examined # << >>) =>
        LET e == surge.examined[1]
        IN  /\ e.tx \in e.heads
            /\ \A h \in e.heads \ {e.tx} :
                  /\ RateAtMost(h, e.tx)
                  /\ RateAtMost(e.tx, h) =>
                        XorBits(getFullHash(h), surge.mSeed, HashBits)
                            < XorBits(getFullHash(e.tx), surge.mSeed, HashBits)

\* a step examined the head with the lower bid but the higher rate, and a
\* step broke a tie of rates
C8_Witness ==
    /\ pc = "surge"
    /\ surge.examined # << >>
    /\ \E h \in surge.examined[1].heads \ {surge.examined[1].tx} :
          \/ getFeeBid(h) > getFeeBid(surge.examined[1].tx)
          \/ ( /\ RateAtMost(surge.examined[1].tx, h)
               /\ getFullHash(h) > getFullHash(surge.examined[1].tx) )

CeilDiv(a, b) == IF a % b = 0 THEN a \div b ELSE (a \div b) + 1

\* the lowest bid per operation among the transactions S (S not empty)
LowestBidPerOp(S) ==
    CHOOSE m \in { CeilDiv(getFeeBid(t), getNumOperations(t)) : t \in S } :
        \A t \in S : m <= CeilDiv(getFeeBid(t), getNumOperations(t))

\* C9 as stated (for a set that is not empty): getBaseFee returns the lowest
\* ceil(feeBid / numOperations) of the set when its total operations exceed
\* maxTxSetSize - 100, and header.baseFee otherwise.
C9_Original ==
    (last.op = "getBaseFee" /\ last.pre # << >>) =>
        last.ret = IF TotalOps(Range(last.pre))
                        > app.header.maxTxSetSize - 100
                   THEN LowestBidPerOp(Range(last.pre))
                   ELSE app.header.baseFee

\* the base fee of the ledger, by the rule of C9 amended
LedgerBaseFee(S, lh) ==
    IF /\ lh.ledgerVersion >= 11
       /\ S # {}
       /\ TotalOps(S) > lh.maxTxSetSize - 100
    THEN LowestBidPerOp(S)
    ELSE lh.baseFee

\* C9 amended: for ledger versions >= 11 and a set that is not empty, as
\* stated; header.baseFee for earlier ledger versions and for an empty set.
C9_BaseFee ==
    last.op = "getBaseFee" =>
        last.ret = LedgerBaseFee(Range(last.pre), app.header)

\* getBaseFee returned a lowest bid that had to be rounded up
C9_Witness ==
    /\ last.op = "getBaseFee"
    /\ last.ret # app.header.baseFee
    /\ \E t \in Range(last.pre) :
          /\ last.ret * getNumOperations(t) > getFeeBid(t)
          /\ (last.ret - 1) * getNumOperations(t) < getFeeBid(t)

\* C10 as stated: when the total operations are at most maxTxSetSize every
\* transaction is charged numOperations x header.baseFee; when they exceed it,
\* numOperations x the lowest per-operation bid; never more than its own bid.
C10_Original ==
    last.op = "getTotalFees" =>
        \A t \in Range(last.pre) :
            /\ TotalOps(Range(last.pre)) <= app.header.maxTxSetSize
                  => last.aux[t] = getNumOperations(t) * app.header.baseFee
            /\ TotalOps(Range(last.pre)) > app.header.maxTxSetSize
                  => last.aux[t] = getNumOperations(t)
                                     * LowestBidPerOp(Range(last.pre))
            /\ last.aux[t] <= getFeeBid(t)

\* C10 amended: with B the ledger base fee (header.baseFee below ledger
\* version 11, for an empty set and up to maxTxSetSize - 100 operations, the
\* lowest per-operation bid above), every transaction is charged its declared
\* resource fee plus the smaller of its inclusion fee and numOperations x B,
\* which is never more than its declared fee.
C10_ChargedAtBaseFee ==
    last.op = "getTotalFees" =>
        /\ \A t \in Range(last.pre) :
              /\ last.aux[t] =
                    (IF t.soroban THEN t.resourceFee ELSE 0)
                    + Min(t.fee - (IF t.soroban THEN t.resourceFee ELSE 0),
                          getNumOperations(t)
                            * LedgerBaseFee(Range(last.pre), app.header))
              /\ last.aux[t] <= getFeeBid(t)
        /\ last.ret = LET RECURSIVE Sum(_)
                          Sum(S) == IF S = {} THEN 0
                                    ELSE LET t == CHOOSE x \in S : TRUE
                                         IN  last.aux[t] + Sum(S \ {t})
                      IN  Sum(Range(last.pre))

\* a transaction was charged its whole bid because numOperations x the
\* rounded-up base fee is more, and another was charged less than its bid
C10_Witness ==
    /\ last.op = "getTotalFees"
    /\ \E t, u \in Range(last.pre) :
          /\ last.aux[t] = getFeeBid(t)
          /\ getNumOperations(t) * LedgerBaseFee(Range(last.pre), app.header)
                 > getFeeBid(t)
          /\ last.aux[u] < getFeeBid(u)

\* the balances of the view and its fee pool, together
RECURSIVE SumBalances(_, _)
SumBalances(accounts, ids) ==
    IF ids = {} THEN 0
    ELSE LET a == CHOOSE x \in ids : TRUE
         IN  accounts[a].balance + SumBalances(accounts, ids \ {a})

FeeTotal(ltx) ==
    SumBalances(ltx.accounts, DOMAIN ltx.accounts) + ltx.header.feePool

\* the fee processFeeSeqNum was asked to charge in the call recorded in feeLast
FeeToCharge == getFee(feeLast.tx, feeLast.pre.header, feeLast.baseFee, TRUE)

FeeProcessed == feeLast # << >> /\ ~feeLast.thrown

\* C11: processFeeSeqNum moves exactly c = min(fee to charge, balance of the
\* fee source), and nothing when the fee to charge is not positive, from the
\* fee source into header.feePool and records min(fee to charge, balance) as
\* feeCharged; no other balance changes, no balance is ever negative and the
\* balances plus the fee pool add up to what they were, also when the
\* deduction takes the account below its reserve.
C11_FeeMovedToPool ==
    /\ \A a \in DOMAIN feeLtx.accounts : feeLtx.accounts[a].balance >= 0
    /\ FeeProcessed =>
          LET pre == feeLast.pre
              id == getFeeSourceID(feeLast.tx)
              c == IF FeeToCharge <= 0 THEN 0
                   ELSE Min(FeeToCharge, pre.accounts[id].balance)
          IN  /\ feeLtx.accounts[id].balance = pre.accounts[id].balance - c
              /\ feeLtx.header.feePool = pre.header.feePool + c
              /\ feeLast.txResult.feeCharged
                     = Min(FeeToCharge, pre.accounts[id].balance)
              /\ \A a \in DOMAIN pre.accounts \ {id} :
                     feeLtx.accounts[a].balance = pre.accounts[a].balance
              /\ FeeTotal(feeLtx) = FeeTotal(pre)

\* a deduction cut down to the balance that empties an account below its reserve
C11_Witness ==
    /\ FeeProcessed
    /\ FeeToCharge > feeLast.pre.accounts[getFeeSourceID(feeLast.tx)].balance
    /\ feeLast.txResult.feeCharged > 0
    /\ feeLtx.accounts[getFeeSourceID(feeLast.tx)].balance
           < feeLtx.accounts[getFeeSourceID(feeLast.tx)].reserve
    /\ feeLtx.header.feePool > feeLast.txResult.feeCharged

IvHostCalled == ivRun.out # << >>

IvOut == ivRun.out[1]

IvFootprint == ivOp.readOnly \o ivOp.readWrite

IvSucceeded == ivRun.code = "INVOKE_HOST_FUNCTION_SUCCESS"

IvLimitExceeded == ivRun.code = "INVOKE_HOST_FUNCTION_RESOURCE_LIMIT_EXCEEDED"

\* the view of the operation is as it was opened, with nothing recorded
IvUntouched == ivLtx.entries = ivLtx.opened /\ ivLtx.recorded = {}

RECURSIVE SumSeq(_)
SumSeq(q) == IF q = << >> THEN 0 ELSE Head(q) + SumSeq(Tail(q))

\* the bytes of the events and of the return value of a host output
EventBytes(out) == SumSeq(out.contract_events) + out.result_value

\* C13: when doApply fails at any stage, also after write-back has created,
\* updated or erased entries in the view of the operation (events too large,
\* return value too large, refundable fee too small), the view the operation
\* nests in holds, once the operation is over, exactly the entries it held
\* before the invocation.
C13_RollbackAtomicity ==
    /\ ivRun.pc = "done"
    /\ \/ ~ivRun.ok
       \/ /\ IvHostCalled
          /\ \/ EventBytes(IvOut) > sorobanConfig.txMaxContractEventsSizeBytes
             \/ IvOut.rent_fee + EventBytes(IvOut) > ivOp.refundableFee
    => ivParent = ivLtx.opened

\* a failure for the refundable fee after write-back changed the view
C13_Witness ==
    /\ ivRun.pc = "done"
    /\ ivRun.code = "INVOKE_HOST_FUNCTION_INSUFFICIENT_REFUNDABLE_FEE"
    /\ \E lk \in LedgerKeys : ivLtx.opened[lk] = << >> /\ ivLtx.entries[lk] # << >>
    /\ \E lk \in LedgerKeys : ivLtx.opened[lk] # << >> /\ ivLtx.entries[lk] = << >>
    /\ ivParent = ivLtx.opened

\* C14: doApply goes Gathering, Invoking, WritingBack, Finalizing in this
\* order: the host is invoked at most once and only after every footprint key
\* was read without error, the view is changed only after the host reported
\* success, and a failure while gathering or invoking leaves the view as it
\* was opened, with no entry recorded by the reads.
C14_PhasesInOrder ==
    /\ ivRun.hostCalls <= 1
    /\ ivRun.pc = "Gathering" => ~IvHostCalled /\ ivRun.mReadEntry = 0
    /\ ivRun.pc = "Invoking" => ~IvHostCalled /\ ivRun.ok
    /\ ivRun.pc = "Invoking" \/ IvHostCalled
          => /\ ivRun.mReadEntry = Len(IvFootprint)
             /\ ivRun.mLedgerReadByte <= ivOp.readBytes
    /\ IvHostCalled => ivRun.hostCalls = 1
    /\ ivRun.pc \in {"WritingBack", "Finalizing"}
          => IvHostCalled /\ IvOut.success /\ ivRun.ok
    /\ ivRun.pc \in {"Gathering", "Invoking", "WritingBack"} => IvUntouched
    /\ ~IvUntouched => IvHostCalled /\ IvOut.success
    /\ IvSucceeded => IvHostCalled /\ IvOut.success /\ ivRun.ok
    /\ ~ivRun.ok /\ (~IvHostCalled \/ ~IvOut.success)
          => IvUntouched /\ ivParent = ivLtx.opened

\* a host that failed and returned entries: none was written
C14_Witness ==
    /\ ivRun.pc = "done"
    /\ IvHostCalled
    /\ ~IvOut.success
    /\ IvOut.modified_ledger_entries # << >>
    /\ ~ivRun.ok
    /\ IvUntouched

\* the entry of lk in the view as opened is a contract entry whose
\* ExpirationEntry is not live
ExpiredIn(lk) ==
    /\ isSorobanEntry(lk)
    /\ ivLtx.opened[lk] # << >>
    /\ ~isLive(ivLtx.opened[getExpirationKey(lk)][1], ivOp.ledgerSeq)

ExpiredPersistentKeys ==
    { lk \in Range(IvFootprint) : ExpiredIn(lk) /\ ~isTemporaryEntry(lk) }

ExpiredTemporaryKeys ==
    { lk \in Range(IvFootprint) : ExpiredIn(lk) /\ isTemporaryEntry(lk) }

\* no entry in the buffers for the host is expired, and no expired temporary
\* entry is in them
NoExpiredHandedToHost ==
    \A i \in 1 .. Len(ivRun.ledgerEntryCxxBufs) :
        LET b == ivRun.ledgerEntryCxxBufs[i]
        IN  /\ b.expiration # << >> => isLive(b.expiration[1], ivOp.ledgerSeq)
            /\ LedgerEntryKey(b.entry) \notin ExpiredTemporaryKeys

\* C15 as stated: no expired entry is handed to the host; an expired
\* persistent entry in the footprint makes doApply fail with ENTRY_EXPIRED
\* before the host is invoked; an expired temporary entry is left out of the
\* host input and fails nothing.
C15_Original ==
    /\ NoExpiredHandedToHost
    /\ ivRun.pc # "Gathering" /\ ExpiredPersistentKeys # {}
          => /\ ~ivRun.ok
             /\ ~IvHostCalled
             /\ ivRun.code = "INVOKE_HOST_FUNCTION_ENTRY_EXPIRED"
    /\ ivRun.pc # "Gathering" /\ ExpiredPersistentKeys = {}
          => ivRun.code # "INVOKE_HOST_FUNCTION_ENTRY_EXPIRED"

\* C15: no expired entry is handed to the host; an expired persistent entry
\* in the footprint makes doApply fail before the host is invoked, with
\* ENTRY_EXPIRED unless a key before it took the bytes read above readBytes,
\* which fails with RESOURCE_LIMIT_EXCEEDED; an expired temporary entry is
\* left out of the host input, counts no bytes and fails nothing.
C15_NoExpiredEntryToHost ==
    /\ NoExpiredHandedToHost
    /\ ivRun.pc # "Gathering" /\ ExpiredPersistentKeys # {}
          => /\ ~ivRun.ok
             /\ ~IvHostCalled
             /\ \/ ivRun.code = "INVOKE_HOST_FUNCTION_ENTRY_EXPIRED"
                \/ /\ IvLimitExceeded
                   /\ ivRun.mLedgerReadByte > ivOp.readBytes
    /\ ivRun.pc # "Gathering" /\ ExpiredPersistentKeys = {}
          => ivRun.code # "INVOKE_HOST_FUNCTION_ENTRY_EXPIRED"

\* an expired temporary entry was passed over, then an expired persistent
\* entry stopped doApply
C15_Witness ==
    /\ ivRun.pc = "done"
    /\ ivRun.code = "INVOKE_HOST_FUNCTION_ENTRY_EXPIRED"
    /\ ExpiredTemporaryKeys # {}
    /\ ivRun.mReadEntry >= 2
    /\ Len(ivRun.ledgerEntryCxxBufs) < ivRun.mReadEntry
    /\ ~IvHostCalled

\* the bytes the entry of lk and its ExpirationEntry add to the bytes read:
\* none for a key without entry and for an expired entry
ReadSize(lk) ==
    IF ivLtx.opened[lk] = << >> \/ ExpiredIn(lk) THEN 0
    ELSE ivLtx.opened[lk][1].size
         + (IF isSorobanEntry(lk)
            THEN ivLtx.opened[getExpirationKey(lk)][1].size ELSE 0)

\* the bytes read after the first n keys of the footprint, readOnly first
RECURSIVE ReadBytesAfter(_)
ReadBytesAfter(n) ==
    IF n = 0 THEN 0 ELSE ReadBytesAfter(n - 1) + ReadSize(IvFootprint[n])

\* C16: the host is invoked only if after every footprint key, readOnly keys
\* first, the size of the loaded entries with their ExpirationEntries is at
\* most resources.readBytes; the first key that takes the total above the limit
\* makes doApply fail with RESOURCE_LIMIT_EXCEEDED at that key, without
\* invoking the host.
C16_ReadBytesLimit ==
    /\ IvHostCalled =>
          \A i \in 1 .. Len(IvFootprint) : ReadBytesAfter(i) <= ivOp.readBytes
    /\ ivRun.pc # "Gathering" =>
          \A i \in 1 .. Len(IvFootprint) :
              /\ ReadBytesAfter(i) > ivOp.readBytes
              /\ \A j \in 1 .. (i - 1) :
                     /\ ReadBytesAfter(j) <= ivOp.readBytes
                     /\ IvFootprint[j] \notin ExpiredPersistentKeys
              => /\ ~ivRun.ok
                 /\ IvLimitExceeded
                 /\ ivRun.error
                      = "operation byte-read resources exceeds amount specified"
                 /\ ivRun.mReadEntry = i
                 /\ ivRun.mLedgerReadByte = ReadBytesAfter(i)
                 /\ ivRun.hostCalls = 0

\* the limit was exceeded by a key of readWrite, after all of readOnly
C16_Witness ==
    /\ ivRun.pc = "done"
    /\ IvLimitExceeded
    /\ ivRun.mLedgerReadByte > ivOp.readBytes
    /\ ivRun.mReadEntry > Len(ivOp.readOnly)
    /\ ivRun.mReadEntry < Len(IvFootprint)
    /\ Len(ivOp.readOnly) > 0
    /\ ~IvHostCalled

\* C17: when the host reports failure, or the host call throws, doApply
\* returns false with RESOURCE_LIMIT_EXCEEDED for the instructions if the
\* instructions consumed exceed resources.instructions, otherwise with
\* RESOURCE_LIMIT_EXCEEDED for the memory if the memory consumed exceeds the
\* network limit, otherwise with TRAPPED; no entry is written.
C17_HostFailureClassified ==
    IvHostCalled /\ ~IvOut.success =>
        /\ ~ivRun.ok
        /\ ivRun.pc \in {"returned", "done"}
        /\ IF ivOp.instructions < IvOut.cpu_insns
           THEN /\ IvLimitExceeded
                /\ ivRun.error
                     = "operation instructions exceeds amount specified"
           ELSE IF sorobanConfig.txMemoryLimit < IvOut.mem_bytes
           THEN /\ IvLimitExceeded
                /\ ivRun.error
                     = "operation memory usage exceeds network config limit"
           ELSE ivRun.code = "INVOKE_HOST_FUNCTION_TRAPPED"
        /\ IvOut.thrown => ivRun.code = "INVOKE_HOST_FUNCTION_TRAPPED"
        /\ IvUntouched

\* a failed host that exceeded both instructions and memory
C17_Witness ==
    /\ ivRun.pc = "done"
    /\ IvHostCalled
    /\ ~IvOut.success
    /\ ivOp.instructions < IvOut.cpu_insns
    /\ sorobanConfig.txMemoryLimit < IvOut.mem_bytes
    /\ ivRun.error = "operation instructions exceeds amount specified"

\* C18: instructions and memory are hard caps: doApply never ends in SUCCESS
\* when the instructions the host reports exceed resources.instructions or the
\* memory it reports exceeds the memory limit; one instruction more than
\* declared always gives RESOURCE_LIMIT_EXCEEDED, and no write is kept.
C18_HardCaps ==
    /\ IvSucceeded =>
          /\ IvOut.cpu_insns <= ivOp.instructions
          /\ IvOut.mem_bytes <= sorobanConfig.txMemoryLimit
    /\ IvHostCalled /\ IvOut.cpu_insns > ivOp.instructions =>
          /\ ~ivRun.ok
          /\ IvLimitExceeded
          /\ IvUntouched
          /\ ivParent = ivLtx.opened
    /\ IvHostCalled /\ IvOut.mem_bytes > sorobanConfig.txMemoryLimit =>
          /\ ~ivRun.ok
          /\ IvLimitExceeded
          /\ IvUntouched
          /\ ivParent = ivLtx.opened

\* one instruction more than declared, memory within the limit, entries returned
C18_Witness ==
    /\ ivRun.pc = "done"
    /\ IvHostCalled
    /\ IvOut.cpu_insns = ivOp.instructions + 1
    /\ IvOut.mem_bytes <= sorobanConfig.txMemoryLimit
    /\ IvOut.modified_ledger_entries # << >>
    /\ IvLimitExceeded
    /\ ivParent = ivLtx.opened

\* the entry respects the size cap of its kind
RespectsSizeCap(le) ==
    /\ keyType(LedgerEntryKey(le)) = "CONTRACT_CODE"
          => le.codeSize <= sorobanConfig.maxContractSizeBytes
    /\ keyType(LedgerEntryKey(le)) = "CONTRACT_DATA"
          => le.size <= sorobanConfig.maxContractDataEntrySizeBytes

\* the size of the first n entries of les, the ExpirationEntries among them
\* counted or not
RECURSIVE WrittenBytes(_, _, _)
WrittenBytes(les, n, withExpiration) ==
    IF n = 0 THEN 0
    ELSE WrittenBytes(les, n - 1, withExpiration)
         + (IF withExpiration \/ keyType(LedgerEntryKey(les[n])) # "EXPIRATION"
            THEN les[n].size ELSE 0)

\* entry n of the host output breaks its size cap or, not being an
\* ExpirationEntry, takes the bytes written above writeBytes
BreaksWriteLimit(n) ==
    LET les == IvOut.modified_ledger_entries
    IN  \/ ~RespectsSizeCap(les[n])
        \/ /\ keyType(LedgerEntryKey(les[n])) # "EXPIRATION"
           /\ WrittenBytes(les, n, FALSE) > ivOp.writeBytes

\* C19 as stated: doApply succeeds only if every entry the host returned
\* respects its size cap and the size of all modified entries together is at
\* most resources.writeBytes.
C19_Original ==
    IvSucceeded =>
        LET les == IvOut.modified_ledger_entries
        IN  /\ \A i \in 1 .. Len(les) : RespectsSizeCap(les[i])
            /\ WrittenBytes(les, Len(les), TRUE) <= ivOp.writeBytes

\* C19: doApply succeeds only if every entry the host returned respects its
\* size cap and the size of the modified entries other than ExpirationEntries
\* is at most resources.writeBytes; the first entry that breaks either makes
\* doApply fail with RESOURCE_LIMIT_EXCEEDED, the entries before it having
\* been written to the view of the operation and none from it on.
C19_WriteLimits ==
    /\ IvSucceeded =>
          LET les == IvOut.modified_ledger_entries
          IN  /\ \A i \in 1 .. Len(les) : RespectsSizeCap(les[i])
              /\ WrittenBytes(les, Len(les), FALSE) <= ivOp.writeBytes
              /\ ivRun.mLedgerWriteByte = WrittenBytes(les, Len(les), FALSE)
    /\ IvHostCalled /\ IvOut.success /\ ivRun.pc # "WritingBack" =>
          LET les == IvOut.modified_ledger_entries
          IN  \A i \in 1 .. Len(les) :
                  /\ BreaksWriteLimit(i)
                  /\ \A j \in 1 .. (i - 1) : ~BreaksWriteLimit(j)
                  => /\ ~ivRun.ok
                     /\ IvLimitExceeded
                     /\ \A j \in 1 .. (i - 1) :
                            ivLtx.entries[LedgerEntryKey(les[j])] = << les[j] >>
                     /\ \A j \in i .. Len(les) :
                            ivLtx.entries[LedgerEntryKey(les[j])]
                                = ivLtx.opened[LedgerEntryKey(les[j])]

\* a success whose entries other than ExpirationEntries fill writeBytes to the
\* last byte
C19_Witness ==
    /\ ivRun.pc = "done"
    /\ IvSucceeded
    /\ IvOut.modified_ledger_entries # << >>
    /\ WrittenBytes(IvOut.modified_ledger_entries,
                    Len(IvOut.modified_ledger_entries), FALSE) = ivOp.writeBytes
    /\ WrittenBytes(IvOut.modified_ledger_entries,
                    Len(IvOut.modified_ledger_entries), TRUE) > ivOp.writeBytes

\* the keys of the entries the host returned
ReturnedKeys ==
    { LedgerEntryKey(IvOut.modified_ledger_entries[i]) :
        i \in 1 .. Len(IvOut.modified_ledger_entries) }

\* C20: after a successful doApply the view holds an entry under a key of
\* footprint.readWrite if and only if the host returned an entry with that
\* key, and then it holds that entry; a readWrite key the host did not return
\* is erased from the view together with its ExpirationEntry.
C20_ReadWriteAsReturned ==
    IvSucceeded =>
        \A lk \in Range(ivOp.readWrite) :
            /\ ivLtx.entries[lk] # << >> <=> lk \in ReturnedKeys
            /\ lk \in ReturnedKeys =>
                  \E i \in 1 .. Len(IvOut.modified_ledger_entries) :
                      ivLtx.entries[lk] = << IvOut.modified_ledger_entries[i] >>
            /\ lk \notin ReturnedKeys /\ ivLtx.opened[lk] # << >> =>
                  /\ lk \in ivLtx.recorded
                  /\ isSorobanEntry(lk) =>
                        ivLtx.entries[getExpirationKey(lk)] = << >>

\* one readWrite key was returned and is kept, another was there, was not
\* returned and is gone with its ExpirationEntry
C20_Witness ==
    /\ ivRun.pc = "done"
    /\ IvSucceeded
    /\ \E lk \in Range(ivOp.readWrite) :
          lk \in ReturnedKeys /\ ivLtx.entries[lk] # << >>
    /\ \E lk \in Range(ivOp.readWrite) :
          /\ lk \notin ReturnedKeys
          /\ ivLtx.opened[lk] # << >>
          /\ ivLtx.opened[getExpirationKey(lk)] # << >>
          /\ ivLtx.entries[lk] = << >>
          /\ ivLtx.entries[getExpirationKey(lk)] = << >>
    /\ ivParent = ivLtx.entries

\* a view pairs its entries: every contract-code and contract-data entry it
\* holds has its ExpirationEntry, and it holds no ExpirationEntry without
\* the entry
ExpirationPaired(entries) ==
    \A k \in { x \in FootprintKeys : isSorobanEntry(x) } :
        (entries[k] # << >>) <=> (entries[getExpirationKey(k)] # << >>)

\* the keys the operation created, and the keys it erased
IvCreated == { k \in LedgerKeys : ivLtx.opened[k] = << >>
                                   /\ ivLtx.entries[k] # << >> }

IvErased == { k \in LedgerKeys : ivLtx.opened[k] # << >>
                                  /\ ivLtx.entries[k] = << >> }

IvNothingRecorded ==
    ivRun.contractEvents = << >> /\ ivRun.returnValue = << >>

\* C22: the step of doApply after write-back ends in SUCCESS exactly when the
\* events and the result value together are within
\* txMaxContractEventsSizeBytes and the refundable fee reserve covered the
\* rent fee and the event bytes, and then the events and the return value are
\* recorded on the transaction; above the size limit it ends in
\* RESOURCE_LIMIT_EXCEEDED, with a reserve that did not cover them in
\* INSUFFICIENT_REFUNDABLE_FEE, and both record nothing. Nothing is recorded
\* by a doApply that did not succeed.
C22_EventSizeAndRefundableFee ==
    (ivRun # << >> /\ ivRun.pc \in {"returned", "thrown", "done"})
        => LET reached == IvHostCalled /\ ivRun.mEmitEventByte > 0
               bytes == IF IvHostCalled THEN EventBytes(IvOut) ELSE 0
               within == bytes <= sorobanConfig.txMaxContractEventsSizeBytes
               consumed == consumeRefundableSorobanResources(
                               ivOp, bytes,
                               IF IvHostCalled THEN IvOut.rent_fee ELSE 0).ok
           IN  /\ IvSucceeded => reached /\ within /\ consumed
               /\ IvSucceeded =>
                      /\ ivRun.contractEvents = << IvOut.contract_events >>
                      /\ ivRun.returnValue = << IvOut.result_value >>
               /\ ~IvSucceeded => IvNothingRecorded
               /\ (reached /\ ~within) => IvLimitExceeded
               /\ (reached /\ within /\ ~consumed) =>
                      ivRun.code
                        = "INVOKE_HOST_FUNCTION_INSUFFICIENT_REFUNDABLE_FEE"
               /\ (reached /\ within /\ consumed) => IvSucceeded

\* a doApply whose host returned events within the size limit and whose
\* refundable fee reserve did not cover them: nothing is recorded
C22_Witness ==
    /\ ivRun # << >> /\ ivRun.pc = "done" /\ IvHostCalled
    /\ ivRun.mEmitEventByte > 0
    /\ ivRun.code = "INVOKE_HOST_FUNCTION_INSUFFICIENT_REFUNDABLE_FEE"
    /\ IvOut.contract_events # << >>
    /\ IvNothingRecorded

\* doApply came to an end after a host call that returned, and no assertion
\* threw
IvEndedAfterHost ==
    /\ ivRun # << >> /\ ivRun.pc \in {"returned", "done"}
    /\ ~ivRun.thrown /\ IvHostCalled /\ ~IvOut.thrown

\* doApply failed in the events loop
IvEventLoopFailed ==
    ivRun.error = "total events size exceeds network config maximum"

\* doApply failed while writing back what the host returned
IvWriteBackFailed ==
    ivRun.error \in {"entry size exceeds network config maximum size",
                     "operation byte-write resources exceeds amount specified"}

\* C23 as stated: on every failure of doApply after the host was invoked, the
\* host's diagnostic events are emitted, and at most once.
C23_Original ==
    (IvEndedAfterHost /\ ~IvSucceeded
     /\ sorobanConfig.ENABLE_SOROBAN_DIAGNOSTIC_EVENTS)
        => ivRun.diagnosticCalls = 1

\* C23, what doApply does: the host's diagnostic events are emitted at most
\* once; they are emitted when the host failed, when the return value took
\* the events size above the limit, when the refundable fee did not suffice
\* and on success, and they are not emitted when write-back or the events
\* loop failed.
C23_DiagnosticsAtMostOnce ==
    (IvEndedAfterHost /\ sorobanConfig.ENABLE_SOROBAN_DIAGNOSTIC_EVENTS)
        => /\ ivRun.diagnosticCalls <= 1
           /\ ivRun.diagnosticCalls = 0
                  <=> (IvWriteBackFailed \/ IvEventLoopFailed)

\* the host succeeded, write-back failed on a size cap or on writeBytes, and
\* no diagnostic event of the host was emitted
C23_Witness ==
    /\ IvEndedAfterHost /\ IvOut.success /\ IvWriteBackFailed
    /\ sorobanConfig.ENABLE_SOROBAN_DIAGNOSTIC_EVENTS
    /\ ivRun.diagnosticCalls = 0

\* the fee source of the fee bump in a view: << >> when it is not there
FbFeeSource(ltx) == loadAccount(ltx, getFeeSourceID(fbTx))

\* apply returned: both of its steps ran and nothing was thrown
FbApplied == fbRun # << >> /\ fbRun.pc \in {"applied", "done"}

\* C24: apply first removes the one-time signer of the fee source in a view
\* of its own and commits it, the inner transaction not yet applied and every
\* other signer kept; then it applies the inner transaction. The signer stays
\* removed whether the inner transaction succeeds or fails, and apply returns
\* what the inner transaction's apply returned.
C24_SignerRemovedThenInner ==
    FbApplied
        => LET before == fbRun.charged[1]
               removed == fbRun.removed[1]
               src == getSourceID(fbTx)
           IN  /\ FbFeeSource(removed) # << >>
               /\ FbFeeSource(removed)[1].signers
                    = FbFeeSource(before)[1].signers \ {preAuthTxKey(fbTx)}
               /\ src \in DOMAIN removed.accounts =>
                    removed.accounts[src].seqNum = before.accounts[src].seqNum
               /\ FbFeeSource(fbLtx) # << >>
               /\ FbFeeSource(fbLtx)[1].signers
                    = FbFeeSource(removed)[1].signers
               /\ fbRun.res = << fbRun.inner[1].res >>

\* the fee source held the one-time signer, and apply returned false because
\* the inner transaction failed after consuming its sequence number
C24_Witness ==
    /\ FbApplied
    /\ preAuthTxKey(fbTx) \in FbFeeSource(fbRun.charged[1])[1].signers
    /\ OtherSignerKey \in FbFeeSource(fbLtx)[1].signers
    /\ fbRun.inner[1].code = "txFAILED"
    /\ fbRun.res = << FALSE >>

\* processPostApply ran
FbPostApplied == fbRun # << >> /\ fbRun.pc = "done"

\* C25 as stated: after processPostApply the fee charged of the fee bump is
\* the fee charged of the inner transaction (as it was before the refund, or
\* as processRefund left it) minus the refund.
C25_Original ==
    FbPostApplied
        => \/ fbRun.txResult[1].feeCharged
                = fbRun.beforePost[1].inner.feeCharged - fbRun.refund[1]
           \/ fbRun.txResult[1].feeCharged
                = fbRun.txResult[1].inner.feeCharged - fbRun.refund[1]

\* C25: for a Soroban fee bump from protocol version 21 on, processPostApply
\* takes the refund of processRefund off the fee charged of the fee bump
\* itself, as processFeeSeqNum set it, and copies the fee charged of the inner
\* result payload to the inner result pair; for any other fee bump it leaves
\* the fee charged of the fee bump as it was.
C25_FeeChargedAfterRefund ==
    FbPostApplied
        => LET before == fbRun.beforePost[1]
               after == fbRun.txResult[1]
           IN  IF fbLtx.header.ledgerVersion >= 21 /\ isSoroban(fbTx)
               THEN /\ after.feeCharged
                         = before.feeCharged - fbRun.refund[1]
                    /\ after.innerPair.feeCharged = after.inner.feeCharged
               ELSE /\ after.feeCharged = before.feeCharged
                    /\ after.innerPair = before.innerPair

\* a Soroban fee bump at protocol version 21 with a refund, whose fee charged
\* differs from that of its inner transaction
C25_Witness ==
    /\ FbPostApplied
    /\ fbLtx.header.ledgerVersion >= 21 /\ isSoroban(fbTx)
    /\ fbRun.refund[1] > 0
    /\ fbRun.beforePost[1].feeCharged # fbRun.beforePost[1].inner.feeCharged

\* checkValid ran at a protocol version that has fee bumps
FbChecked ==
    /\ fbRun # << >> /\ fbRun.valid # << >>
    /\ fbLtx.header.ledgerVersion >= 13

\* the inclusion fee per operation of the fee bump, over innerOps + 1
\* operations, against that of its inner transaction, cross-multiplied
FbOuterRate == getInclusionFee(fbTx) * fbTx.innerOps

FbInnerRate == getInnerInclusionFee(fbTx) * getNumOperations(fbTx)

\* C26 as stated: a fee bump whose inclusion fee per operation equals that of
\* its inner transaction is rejected with txINSUFFICIENT_FEE.
C26_Original ==
    (FbChecked /\ FbOuterRate = FbInnerRate)
        => /\ ~fbRun.valid[1].res
           /\ fbRun.valid[1].code = "txINSUFFICIENT_FEE"

\* C26, what checkValid does: a fee bump is rejected with txINSUFFICIENT_FEE
\* when its inclusion fee per operation is below that of its inner
\* transaction, and not for its fee when it is equal or above and reaches the
\* minimum inclusion fee.
C26_RejectsLowerRateOnly ==
    FbChecked
        => /\ FbOuterRate < FbInnerRate
                => fbRun.valid[1].code = "txINSUFFICIENT_FEE"
           /\ (/\ FbOuterRate >= FbInnerRate
               /\ getInclusionFee(fbTx)
                    >= getMinInclusionFee(getNumOperations(fbTx),
                                          fbLtx.header))
                => fbRun.valid[1].code # "txINSUFFICIENT_FEE"

\* a fee bump at the fee per operation of its inner transaction was accepted
C26_Witness ==
    /\ FbChecked /\ FbOuterRate = FbInnerRate
    /\ fbRun.valid[1].res
    /\ fbRun.valid[1].code = "txFEE_BUMP_INNER_SUCCESS"

\* something was thrown inside FeeBumpTransactionFrame::apply
FbThrownInApply == fbRun # << >> /\ fbRun.fault \in {"removal", "inner"}

\* the host call of doApply threw
IvHostThrew == ivRun # << >> /\ IvHostCalled /\ IvOut.thrown

\* C27 as stated: whatever is thrown while a fee bump is applied, and whatever
\* the contract host throws, aborts the process, and no result code comes of
\* it.
C27_Original ==
    /\ FbThrownInApply => (fbRun.pc = "aborted" /\ fbRun.res = << >>)
    /\ IvHostThrew => (ivRun.code = "none" /\ ivRun.thrown)

\* C27: whatever is thrown inside apply of a fee bump, while the one-time
\* signer is removed or while the inner transaction is applied, aborts the
\* process: apply returns nothing and the result is left as it was. What the
\* host call throws inside doApply is caught there: doApply returns false
\* with INVOKE_HOST_FUNCTION_TRAPPED and the operation's view is discarded.
C27_ThrownInApplyIsFatal ==
    /\ FbThrownInApply
          => /\ fbRun.pc = "aborted"
             /\ fbRun.res = << >>
             /\ fbRun.txResult[1].code = "txFEE_BUMP_INNER_SUCCESS"
    /\ (fbRun # << >> /\ fbRun.pc \in {"applied", "done"})
          => fbRun.fault = "none"
    /\ IvHostThrew
          => /\ ~ivRun.thrown /\ ~ivRun.ok
             /\ ivRun.pc \in {"returned", "done"}
             /\ ivRun.code = "INVOKE_HOST_FUNCTION_TRAPPED"
             /\ ivRun.pc = "done" => ivParent = ivLtx.opened

\* the host call threw, and the operation ended with a result code
C27_Witness ==
    /\ IvHostThrew /\ ivRun.pc = "done"
    /\ ivRun.code = "INVOKE_HOST_FUNCTION_TRAPPED"
    /\ IvFootprint # << >>

\* the fee source of t cannot pay the fees of the transactions V it pays for
CannotPay(t, V) ==
    getAvailableBalance(app.header, app.accounts[getFeeSourceID(t)])
        < FeeSum({ u \in V : getFeeSourceID(u) = getFeeSourceID(t) })

\* the transactions of V left by the second loop of checkOrTrim: t stays when
\* neither it nor a transaction before it in its account's queue has a fee
\* source that cannot pay
KeptOf(V) ==
    { t \in V : \A u \in V :
        (getSourceID(u) = getSourceID(t) /\ getSeqNum(u) <= getSeqNum(t))
            => ~CannotPay(u, V) }

\* V is what the first loop of checkOrTrim leaves of S: each transaction of V
\* passes checkValid after the one before it in its account's queue, and each
\* of the others fails it
PassedOf(S, V) ==
    /\ \A t \in V : TxCheckValid(t, app, PrevSeq(t, V))
    /\ \A t \in S \ V : ~TxCheckValid(t, app, PrevSeq(t, V \cup {t}))

C29_TrimIdempotent ==
    last.op = "trimInvalid" =>
        /\ \A o \in checkOrTrim(mTransactions, app, TRUE) : o.ok
        /\ \A o \in trimInvalid(mTransactions, app) :
              o.trimmed = << >> /\ o.txs = mTransactions

\* trimInvalid returned some transactions and left others
C29_Witness ==
    /\ last.op = "trimInvalid"
    /\ last.ret # << >>
    /\ Len(mTransactions) >= 2

\* the transaction of SurgeBidTxs bidding fee
BidTx(fee) == CHOOSE t \in SurgeBidTxs : getFeeBid(t) = fee

\* surgePricingFilter just ended on the three transactions, the set measured
\* in operations against a budget of m
SurgeBidsFiltered(m) ==
    /\ last.op = "surgePricingFilter"
    /\ Range(last.pre) = SurgeBidTxs
    /\ app.header.ledgerVersion >= OPS_VERSION
    /\ app.header.maxTxSetSize = m

\* C30 as stated: with a budget of 3 operations and three transactions of one
\* operation bidding 100, 200 and 300, surge pricing keeps only the one
\* bidding 300 and the base fee is 300.
C30_Original ==
    SurgeBidsFiltered(3)
        => /\ Range(mTransactions) = {BidTx(300)}
           /\ getBaseFee(mTransactions, app.header) = 300

\* C30: with a budget of 3 operations the three transactions, of 3 operations
\* in all, are within the budget: surgePricingFilter drops none and the base
\* fee is the lowest bid, 100. With a budget of 1 operation it keeps only the
\* transaction bidding 300, and the base fee is 300.
C30_SurgeBids ==
    /\ SurgeBidsFiltered(3)
          => /\ ~last.aux.surged
             /\ Range(mTransactions) = SurgeBidTxs
             /\ getBaseFee(mTransactions, app.header) = 100
    /\ SurgeBidsFiltered(1)
          => /\ last.aux.surged
             /\ mTransactions = << BidTx(300) >>
             /\ getBaseFee(mTransactions, app.header) = 300

\* the budget is 3 operations and surgePricingFilter left the three
\* transactions
C30_Witness ==
    /\ SurgeBidsFiltered(3)
    /\ Len(mTransactions) = 3

\* ---------------------------------------------------- claims on start-up

\* every C++ fingerprint that names a file has a host fingerprint of the same
\* file name and the same hash, and the two lists are of the same length
FingerprintsAgree ==
    /\ \A i \in 1 .. Len(mainRun.cpp) :
          mainRun.cpp[i].first # << >>
             => \E j \in 1 .. Len(mainRun.rust) :
                   /\ filename(mainRun.rust[j].file)
                         = filename(mainRun.cpp[i].first)
                   /\ mainRun.rust[j].hash = mainRun.cpp[i].second
    /\ Len(mainRun.cpp) = Len(mainRun.rust)

\* handleCommandLine has been entered
MainRanCommand == mainRun.commands > 0

\* C31: handleCommandLine is entered only when the fingerprints agree; when
\* they do not, a start-up that gets as far as checkXDRFileIdentity ends
\* there with an error and no command has run.
C31_CommandOnlyAfterXdrIdentity ==
    /\ MainRanCommand => FingerprintsAgree /\ mainRun.error = "none"
    /\ ~FingerprintsAgree
          => /\ mainRun.pc \notin {"xdrChecked"}
             /\ mainRun.commands = 0
             /\ mainRun.pc = "aborted" /\ mainRun.error # "version"
                   => mainRun.error \in {"XDR hash missing",
                                         "XDR hash mismatch",
                                         "Number of xdr hashes don't match"}

\* a command ran after two fingerprints were matched by file name across
\* different directories
C31_Witness ==
    /\ MainRanCommand
    /\ Len(mainRun.cpp) = 2
    /\ \E i \in 1 .. 2 : \E j \in 1 .. 2 :
          /\ mainRun.cpp[i].first # mainRun.rust[j].file
          /\ mainRun.cpp[i].first # << >>
          /\ filename(mainRun.cpp[i].first) = filename(mainRun.rust[j].file)
          /\ mainRun.cpp[i].second = mainRun.rust[j].hash

\* ------------------------------------- claims on fee bump validity checks

\* checkValid has returned
FbValidated == fbRun # << >> /\ fbRun.valid # << >>

\* the checks of checkValid in the order of the claim, each with whether it
\* fails for the fee bump in the view it was validated in and the code it
\* stands for
FbChecksInOrder ==
    LET ltx == fbRun.ltxOuter[1]
        h == ltx.header
        present == getFeeSourceID(fbTx) \in DOMAIN ltx.accounts
        acc == ltx.accounts[getFeeSourceID(fbTx)]
    IN  << [fails |-> fbTx.fee < 0 \/ fbTx.innerFee < 0,
            code |-> "txMALFORMED"],
           [fails |-> h.ledgerVersion < 13, code |-> "txNOT_SUPPORTED"],
           [fails |-> getInclusionFee(fbTx)
                         < h.baseFee * getNumOperations(fbTx),
            code |-> "txINSUFFICIENT_FEE"],
           [fails |-> getInnerInclusionFee(fbTx) < 0,
            code |-> "txFEE_BUMP_INNER_FAILED"],
           [fails |-> getInclusionFee(fbTx) * fbTx.innerOps
                         < getInnerInclusionFee(fbTx)
                              * getNumOperations(fbTx),
            code |-> "txINSUFFICIENT_FEE"],
           [fails |-> ~present, code |-> "txNO_ACCOUNT"],
           [fails |-> ~fbTx.signed, code |-> "txBAD_AUTH"],
           [fails |-> present
                      /\ acc.balance - acc.reserve - acc.sellingLiabilities
                            < fbTx.fee,
            code |-> "txINSUFFICIENT_BALANCE"],
           [fails |-> ~fbRun.allSignaturesUsed[1],
            code |-> "txBAD_AUTH_EXTRA"] >>

FbFailing == { i \in 1 .. Len(FbChecksInOrder) : FbChecksInOrder[i].fails }

\* C32: checkValid reports the first failing check of the order malformed
\* fee, version, minimum fee, inner inclusion fee, fee rate, fee source,
\* signature weight, balance, unused signatures; it validates the inner
\* transaction only when none fails; it leaves the outer view as it was.
C32_FirstFailingCheck ==
    FbValidated =>
        /\ FbFailing = {} <=> fbRun.valid[1].innerValidated
        /\ FbFailing # {} =>
              /\ ~fbRun.valid[1].res
              /\ fbRun.valid[1].code
                    = FbChecksInOrder[CHOOSE i \in FbFailing :
                                        \A j \in FbFailing : i <= j].code
        /\ fbRun.earlier = << >> /\ fbRun.pc \in {"valid", "rejected"}
              => fbLtx = fbRun.ltxOuter[1]

\* a fee bump with too little signature weight and too little balance was
\* rejected
C32_Witness ==
    /\ FbValidated
    /\ fbRun.pc = "rejected"
    /\ {7, 8} \subseteq FbFailing
    /\ \A i \in FbFailing : i >= 7

\* commonValid ran in applying mode after the fee was collected
FbRevalidated == fbRun # << >> /\ fbRun.cv # << >>

\* the fee source's available balance in the current view
FbAvailable ==
    LET acc == fbLtx.accounts[getFeeSourceID(fbTx)]
    IN  acc.balance - acc.reserve - acc.sellingLiabilities

\* C33: not applying, a fee bump passes the balance test only with an
\* available balance of at least the full fee; applying, after the fee was
\* collected, a fee source left below its reserve is rejected with
\* txINSUFFICIENT_BALANCE at level kInvalidPostAuth and one left at or above
\* it validates.
C33_BalanceByMode ==
    /\ FbValidated /\ fbRun.valid[1].innerValidated
          => LET acc == fbRun.ltxOuter[1].accounts[getFeeSourceID(fbTx)]
             IN  acc.balance - acc.reserve - acc.sellingLiabilities
                    >= getFullFee(fbTx)
    /\ FbRevalidated =>
          IF FbAvailable < 0
          THEN fbRun.cv[1] = [type |-> "kInvalidPostAuth",
                              code |-> "txINSUFFICIENT_BALANCE"]
          ELSE fbRun.cv[1].type = "kFullyValid"

\* applying, a fee source that validated with the full fee available was
\* left below its reserve by the fee collection and was rejected
C33_Witness ==
    /\ FbRevalidated
    /\ fbRun.valid[1].innerValidated
    /\ FbAvailable < 0
    /\ fbRun.cv[1].code = "txINSUFFICIENT_BALANCE"

\* -------------------------------------------------- claims on SurgeCompare

\* the comparator has been applied
Compared == cmpRun # << >> /\ cmpRun.lt # << >>

\* the i-th pointer compared less than the j-th
CmpLess(i, j) == cmpRun.lt[1][i][j]

\* neither of the i-th and j-th compared less than the other
CmpEquiv(i, j) == ~CmpLess(i, j) /\ ~CmpLess(j, i)

\* the i-th pointer is null or points to an empty queue
CmpEmpty(i) == cmpRun.ptrs[i].null \/ cmpRun.ptrs[i].queue = << >>

\* C34: SurgeCompare is a strict weak ordering: irreflexive, asymmetric,
\* transitive, with transitive incomparability; null and empty queues are
\* equivalent to one another and less than every non-empty queue.
C34_StrictWeakOrdering ==
    Compared =>
        \A i, j, k \in 1 .. 3 :
            /\ ~CmpLess(i, i)
            /\ CmpLess(i, j) => ~CmpLess(j, i)
            /\ CmpLess(i, j) /\ CmpLess(j, k) => CmpLess(i, k)
            /\ CmpEquiv(i, j) /\ CmpEquiv(j, k) => CmpEquiv(i, k)
            /\ CmpEmpty(i) /\ CmpEmpty(j) => CmpEquiv(i, j)
            /\ CmpEmpty(i) /\ ~CmpEmpty(j) => CmpLess(i, j)

\* a null pointer, a pointer to an empty queue and a queue bidding 0 under a
\* base fee of 0 were compared
C34_Witness ==
    /\ Compared
    /\ cmpRun.mHeader.baseFee = 0
    /\ cmpRun.ptrs[1] = NullPtr
    /\ cmpRun.ptrs[2] = PtrTo(<< >>)
    /\ ~CmpEmpty(3)
    /\ getFeeBid(Head(cmpRun.ptrs[3].queue)) = 0
    /\ CmpEquiv(1, 2)
    /\ CmpLess(2, 3)

\* ------------------------------------------- claims on the cached set hash

\* the hash of the set as it stands: mPreviousLedgerHash followed by the
\* envelopes of the transactions in full-hash order
CurrentContentsHash ==
    { HashOf(mPreviousLedgerHash, s) : s \in sortForHash(mTransactions) }

\* getContentsHash has just returned
HashJustReturned == pc = "idle" /\ last.op = "getContentsHash"

\* C35 as stated: whatever was done to the set before, reference writes
\* included, the value getContentsHash returns is the hash of the current
\* previousLedgerHash and the current transactions in full-hash order.
C35_Original == HashJustReturned => last.ret \in CurrentContentsHash

\* C35: the value getContentsHash returns is the hash of the set as it stands
\* provided no write through a reference got from previousLedgerHash() was
\* made while the cache was marked valid.
C35_FreshUnlessWrittenBehind ==
    HashJustReturned /\ ~prevHashRef.missed
        => /\ last.ret \in CurrentContentsHash
           /\ mHash = last.ret
           /\ IsSortedForHash(mTransactions)

\* getContentsHash returned the cached hash of a set of two transactions
\* after a reference was handed out and a transaction was removed
C35_Witness ==
    /\ HashJustReturned
    /\ prevHashRef.held
    /\ ~prevHashRef.missed
    /\ Len(mTransactions) = 1
    /\ Len(last.pre) = 1
    /\ last.ret \in CurrentContentsHash

\* -------------------------------- claims on surgePricingFilter's progress

\* every queue in the heap holds a transaction
SurgeHeapQueuesNonEmpty ==
    pc = "surge" => \A a \in surge.heap : surge.queues[a] # << >>

\* the transactions queued in the heap and the budget are what one iteration
\* leaves: one transaction of one queue accepted, or one queue emptied
SurgeIterationProgress ==
    pc = "surge" /\ pc' = "surge" /\ surge' # surge
        => \E cur \in surge.heap :
              /\ \A a \in Accounts \ {cur} :
                    surge'.queues[a] = surge.queues[a]
              /\ \/ /\ surge'.updatedSet
                          = Append(surge.updatedSet, Head(surge.queues[cur]))
                    /\ surge'.queues[cur] = Tail(surge.queues[cur])
                    /\ surge'.heap \subseteq surge.heap
                 \/ /\ surge'.updatedSet = surge.updatedSet
                    /\ surge'.queues[cur] = << >>
                    /\ surge'.heap = surge.heap \ {cur}

\* C36: in surgePricingFilter every queue in the heap is non-empty, so the
\* queue popped has a front; every iteration accepts exactly one transaction
\* or empties one queue; and the filter, once begun, returns.
C36_SurgeTerminates ==
    /\ []SurgeHeapQueuesNonEmpty
    /\ [][SurgeIterationProgress]_vars
    /\ (pc = "surge" ~> pc = "idle")

\* the loop has accepted a transaction of a queue that holds another, which
\* went back into the heap
C36_Witness ==
    /\ pc = "surge"
    /\ Len(surge.updatedSet) >= 1
    /\ \E a \in surge.heap :
          /\ getSourceID(surge.updatedSet[1]) = a
          /\ surge.queues[a] # << >>

\* ------------------------------------- claims on what doApply writes to

\* the keys doApply created, updated or erased in its view, and the keys whose
\* entry is not the one the view was opened with
IvTouched ==
    ivLtx.recorded
        \cup { k \in LedgerKeys : ivLtx.entries[k] # ivLtx.opened[k] }

\* the keys of footprint.readWrite and the ExpirationEntry keys of the
\* contract entries of the footprint
IvWritable ==
    Range(ivOp.readWrite)
        \cup { getExpirationKey(k) :
                 k \in { x \in Range(IvFootprint) : isSorobanEntry(x) } }

\* the keys of the entries the host returned; none before the host is called
IvReturnedKeys ==
    IF ivRun.out = << >> THEN {}
    ELSE { LedgerEntryKey(IvOut.modified_ledger_entries[i]) :
             i \in 1 .. Len(IvOut.modified_ledger_entries) }

\* C37 as stated: whatever the host returns, doApply touches no key outside
\* footprint.readWrite and the ExpirationEntry keys of the footprint.
C37_Original == ivRun # << >> => IvTouched \subseteq IvWritable

\* C37: doApply touches only keys of entries the host returned, keys of
\* footprint.readWrite, and ExpirationEntry keys of contract entries in
\* footprint.readWrite; it touches nothing before write-back; when every
\* entry the host returned has its key in footprint.readWrite or is the
\* ExpirationEntry of a footprint key, the entries listed only in readOnly
\* and those outside the footprint are as the view was opened with.
C37_WritesWhatHostReturns ==
    ivRun # << >> =>
        /\ IvTouched \subseteq
              IvReturnedKeys \cup Range(ivOp.readWrite)
                 \cup { getExpirationKey(k) :
                          k \in { x \in Range(ivOp.readWrite) :
                                    isSorobanEntry(x) } }
        /\ ivRun.pc \in {"Gathering", "Invoking", "WritingBack"}
              => IvTouched = {}
        /\ IvReturnedKeys \subseteq IvWritable
              => IvTouched \subseteq IvWritable

\* doApply succeeded on a footprint with a readOnly entry that is there, the
\* host returned entries of readWrite keys only, and the view changed
C37_Witness ==
    /\ ivRun # << >>
    /\ IvSucceeded
    /\ ivOp.readOnly # << >>
    /\ \A k \in Range(ivOp.readOnly) : ivLtx.opened[k] # << >>
    /\ IvReturnedKeys # {}
    /\ IvReturnedKeys \subseteq IvWritable
    /\ IvTouched # {}

\* ------------------------------------ claims on TxSetUtils::trimInvalid

\* TxSetUtils::trimInvalid has returned
UtilReturned == utilRun # << >> /\ utilRun.pc = "returned"

\* t passes its checks in the ledger state the call started from, taken at
\* the ledger after the last closed one
UtilValidAtNextLedger(t) ==
    LET root == utilRun.rootAtCall
    IN  /\ TxCheckValid(t, root, 0)
        /\ root.header.ledgerSeq + 1 >= t.minLedger

\* C38: TxSetUtils::trimInvalid returns the transactions that pass checkValid
\* at ledgerSeq last-closed + 1, in the order they came in; invalidTxs holds
\* those that fail; the root ledger state and its header's ledgerSeq are as
\* before the call.
C38_UtilTrimInvalid ==
    UtilReturned =>
        /\ utilRun.ret
              = SelectSeq(utilRun.txs, LAMBDA t : UtilValidAtNextLedger(t))
        /\ utilRun.invalidTxs
              = SelectSeq(utilRun.txs, LAMBDA t : ~UtilValidAtNextLedger(t))
        /\ utilRun.root = utilRun.rootAtCall
        /\ utilRun.root.header.ledgerSeq = 5

\* of three transactions it kept two, one of them valid only from the next
\* ledger on, and dropped the one between them
C38_Witness ==
    /\ UtilReturned
    /\ Len(utilRun.txs) = 3
    /\ utilRun.ret = << utilRun.txs[1], utilRun.txs[3] >>
    /\ utilRun.invalidTxs = << utilRun.txs[2] >>
    /\ \E i \in {1, 3} : utilRun.txs[i].minLedger = 6

\* --------------------------------- claims on AccountTransactionQueue

\* the queue was built and no assertion has tripped
QueueLive == acctQueue # << >> /\ acctQueue.pc = "live"

\* an assertion has tripped
QueueAborted == acctQueue # << >> /\ acctQueue.pc = "aborted"

\* C39: a queue built from a non-empty list holds its transactions by
\* ascending sequence number; whatever was popped, the counter is the sum of
\* the operations of the transactions still queued, 0 exactly when the queue
\* is empty; getTopTx returns only a queued transaction; a release assertion
\* trips exactly on an empty list, or on getTopTx or popTopTx of an empty
\* queue.
C39_QueueCounter ==
    /\ QueueLive =>
          /\ acctQueue.accountTxs # << >>
          /\ \A i \in 1 .. Len(acctQueue.mTxs) - 1 :
                getSeqNum(acctQueue.mTxs[i])
                   <= getSeqNum(acctQueue.mTxs[i + 1])
          /\ Range(acctQueue.mTxs) \subseteq Range(acctQueue.accountTxs)
          /\ Len(acctQueue.mTxs)
                = Len(acctQueue.accountTxs) - acctQueue.popped
          /\ acctQueue.mNumOperations = sizeOp(acctQueue.mTxs)
          /\ acctQueue.mNumOperations = 0 <=> acctQueue.mTxs = << >>
          /\ acctQueue.op = "getTopTx"
                => acctQueue.top = << Head(acctQueue.mTxs) >>
    /\ QueueAborted =>
          /\ acctQueue.mTxs = << >>
          /\ acctQueue.op = "construct" <=> acctQueue.accountTxs = << >>
          /\ acctQueue.op = "getTopTx" => acctQueue.top = << >>
    /\ (acctQueue # << >> /\ acctQueue.op = "getTopTx"
        /\ acctQueue.popped = Len(acctQueue.accountTxs))
          => QueueAborted

\* two of three transactions, built out of order, were popped and the counter
\* is that of the fee bump left
C39_Witness ==
    /\ QueueLive
    /\ Len(acctQueue.accountTxs) = 3
    /\ getSeqNum(acctQueue.accountTxs[1]) > getSeqNum(acctQueue.accountTxs[2])
    /\ acctQueue.popped = 2
    /\ acctQueue.mNumOperations = 2
    /\ acctQueue.mTxs[1].feeBump

\* ------------------------------------- claims on debug meta segmentation

\* some ledger of the run has closed
MetaClosed == metaRun # << >> /\ metaRun.numLedgers > 0

\* the files to keep were worked out for the ledgers closed so far
MetaKeepKnown == MetaClosed /\ metaRun.keepKnown

\* C40 as stated: a ledger is a segment boundary exactly when its sequence
\* number is a multiple of META_DEBUG_LEDGER_SEGMENT_SIZE, and a run of N
\* consecutive ledgers holds at most getNumberOfDebugFilesToKeep(N)
\* boundaries.
C40_Original ==
    /\ MetaClosed =>
          (metaRun.lastCut
              <=> metaRun.lastSeq % META_DEBUG_LEDGER_SEGMENT_SIZE = 0)
    /\ MetaKeepKnown => metaRun.boundaries <= metaRun.keep

\* C40, what the code does: a ledger is a segment boundary exactly when its
\* sequence number is a multiple of META_DEBUG_LEDGER_SEGMENT_SIZE - 1;
\* getNumberOfDebugFilesToKeep(N) is ceil(N / META_DEBUG_LEDGER_SEGMENT_SIZE),
\* and a run of N consecutive ledgers holds at most
\* ceil(N / (META_DEBUG_LEDGER_SEGMENT_SIZE - 1)) boundaries.
C40_BoundaryOneShort ==
    /\ MetaClosed =>
          /\ metaRun.lastCut
                <=> metaRun.lastSeq % (META_DEBUG_LEDGER_SEGMENT_SIZE - 1) = 0
          /\ metaRun.boundaries * (META_DEBUG_LEDGER_SEGMENT_SIZE - 1)
                < metaRun.numLedgers + META_DEBUG_LEDGER_SEGMENT_SIZE - 1
    /\ MetaKeepKnown =>
          /\ metaRun.keep * META_DEBUG_LEDGER_SEGMENT_SIZE
                >= metaRun.numLedgers
          /\ (metaRun.keep - 1) * META_DEBUG_LEDGER_SEGMENT_SIZE
                < metaRun.numLedgers

\* one segment's worth of ledgers from ledger 0 on holds two boundaries where
\* one file is kept
C40_Witness ==
    /\ MetaKeepKnown
    /\ metaRun.first = 0
    /\ metaRun.numLedgers = META_DEBUG_LEDGER_SEGMENT_SIZE
    /\ metaRun.boundaries = 2
    /\ metaRun.keep = 1

====
